---- MODULE Spec2Model ----
(***************************************************************************)
(* Infeasibility checks for hanabi-like decks (endgames/game/study.py):    *)
(* the per-suit ShapeIdentifier, the PathFinder's capacity and pace        *)
(* filters, the hand-distribution solver, and the two-player game the      *)
(* verdict speaks about.                                                   *)
(*                                                                         *)
(* Deck positions are the 0-based indices of the source.  A TLA+ sequence  *)
(* is 1-based, so position i of a Python list xs is xs[i + 1] here.        *)
(***************************************************************************)
EXTENDS Integers, Sequences, FiniteSets, TLC

VARIABLES
    deck,              \* Deck.deck: the ordered cards, each [suit, rank]
    nsuits,            \* len(Deck.variant.suits)
    options,           \* ShapeIdentifier.options: [hand_capacity, bdrs]
    nswaps,            \* transpositions applied by Deck.shuffle so far
    pc,                \* position of the solve / of the game
    suit_idx,          \* _suitify2: number of suits identified so far
    suit_paths,        \* _suitify2: paths, one tuple of SuitPaths per suit
    path_idx,          \* check_for_1p_inf: product elements consumed so far
    proved_infeasible, \* check_for_1p_inf: local of the same name
    found_pace_one,    \* check_for_1p_inf: local of the same name
    dist_paths,        \* check_for_1p_inf: local of the same name
    dist_idx,          \* check_for_infeasibility: paths consumed by all(...)
    dist_called,       \* the masks _check_for_dist_loss has been called on
    last_path,         \* the mask built by the latest loop iteration
    result,            \* the returned pair, or NoResult
    hands,             \* GameState.hands: per player, the deck positions held
    play_stacks,       \* GameState.play_stacks: per suit, ranks played
    discard_pile,      \* GameState.discard_pile: the deck positions, in order
    draw_pile_size,    \* GameState.draw_pile_size
    current_player,    \* GameState.current_player_index
    final_turns,       \* turns left once the draw pile is empty, or -1
    score,             \* GameState.score
    si,                \* the shared ShapeIdentifier: its scratch attributes
    mask,              \* a boolean mask handed to a filter on its own
    mask_loss,         \* what _check_for_capacity_loss returned for mask
    id_cards,          \* the cards last handed to si.identify on its own
    id_result,         \* what that call returned: [paths, raised]
    variant,           \* Deck.variant: [suit_names, suits]
    printout,          \* repr(deck), a string as its characters
    parsed             \* the deck set_deck built from it: [deck, raised]

vars == <<deck, nsuits, options, nswaps, pc, suit_idx, suit_paths, path_idx,
          proved_infeasible, found_pace_one, dist_paths, dist_idx,
          dist_called, last_path, result, hands, play_stacks, discard_pile,
          draw_pile_size, current_player, final_turns, score, si, mask,
          mask_loss, id_cards, id_result, variant, printout, parsed>>

solver_vars == <<suit_idx, suit_paths, path_idx, proved_infeasible,
                 found_pace_one, dist_paths, dist_idx, dist_called,
                 last_path>>

game_vars == <<hands, play_stacks, discard_pile, draw_pile_size,
               current_player, final_turns, score>>

test_vars == <<mask, mask_loss, id_cards, id_result, variant, printout,
               parsed>>

-----------------------------------------------------------------------------
(* Python values and list helpers                                          *)

\* Python None, kept apart from every deck position and from the initial
\* _playable[1] = -1
NoneVal == -2

\* The top rank: range(1, 6), 6 - rank, 5 * len(suits) in the source.
TopRank == 5

Ranks == 1..TopRank

Max(a, b) == IF a >= b THEN a ELSE b

SetMax(S) == CHOOSE x \in S : \A y \in S : y <= x

SetMin(S) == CHOOSE x \in S : \A y \in S : x <= y

RECURSIVE SumSeq(_)
SumSeq(s) == IF s = <<>> THEN 0 ELSE Head(s) + SumSeq(Tail(s))

\* xs[:n] for 0 <= n
Take(xs, n) == SubSeq(xs, 1, IF n < Len(xs) THEN n ELSE Len(xs))

\* x in xs
InSeq(x, xs) == \E i \in 1..Len(xs) : xs[i] = x

\* [v] * n
Repeat(v, n) == [i \in 1..n |-> v]

\* The concatenation of a sequence of sequences: itertools.chain(*xs).
RECURSIVE Chain(_)
Chain(xss) == IF xss = <<>> THEN <<>> ELSE Head(xss) \o Chain(Tail(xss))

\* A bisect that never looks past the first entry
bisect_first(xs, x) == IF xs = <<>> \/ xs[1] > x THEN 0 ELSE 1

\* bisect.bisect(xs, x) on a sorted list: the number of entries <= x.
bisect(xs, x) == Cardinality({i \in 1..Len(xs) : xs[i] <= x})

-----------------------------------------------------------------------------
(* Card                                                                    *)

\* Card.value, suit_index << 31 | rank.  The encoding is injective for the
\* ranks 1..6 the solver forms, and value + 1 is the next rank of the suit;
\* it is kept as the pair it packs.
CardValue(suit, rank) == <<suit, rank>>

NextValue(value) == <<value[1], value[2] + 1>>

\* Card.index, 5 * suit + rank
CardIndex(suit, rank) == 5 * suit + rank

\* A Deck is the record [deck, nsuits]: Deck.deck and
\* len(Deck.variant.suits).  xs[i] of Python, a negative i counting from
\* the end.
PyAt(xs, i) == IF i < 0 THEN xs[Len(xs) + i + 1] ELSE xs[i + 1]

\* Card.interpret() of the card at a deck position
interpret(d, loc) == PyAt(d.deck, loc)

\* len(self.deck.deck)
DeckLen(d) == Len(d.deck)

\* 5 * len(self.deck.variant.suits), the max score
MaxScore(d) == TopRank * d.nsuits

-----------------------------------------------------------------------------
(* ShapeOptions                                                            *)

\* ShapeOptions.hand_capacity default
DefaultHandCapacity == 10

\* ShapeOptions.__init__: check_for_hand_dist
check_for_hand_dist(opts) == opts.hand_capacity # NoneVal

\* is_bdr with rank 2 always a bdr, whatever the options say
is_bdr_rank(opts, card) == card.rank \in opts.bdrs \cup {2}

\* ShapeOptions.is_bdr
is_bdr(opts, card) == card.rank \in opts.bdrs

RECURSIVE hand_dist_loop(_, _, _, _, _)
hand_dist_loop(opts, cards, i, counts, res) ==
    IF i > Len(cards) THEN res
    ELSE IF cards[i].location >= opts.hand_capacity THEN res
    ELSE LET r == cards[i].rank
             c == counts[r] + 1
         IN  IF c = 2
             THEN hand_dist_loop(opts, cards, i + 1,
                                 [counts EXCEPT ![r] = c], Append(res, r))
             ELSE hand_dist_loop(opts, cards, i + 1,
                                 [counts EXCEPT ![r] = c], res)

\* get_hand_dist_concerns that counts the copies of the whole deck
get_hand_dist_concerns_anywhere(opts, cards) ==
    IF ~check_for_hand_dist(opts) THEN <<>>
    ELSE hand_dist_loop([opts EXCEPT !.hand_capacity = 1000], cards, 1,
                        [r \in Ranks |-> 0], <<>>)

\* ShapeOptions.get_hand_dist_concerns
get_hand_dist_concerns(opts, cards) ==
    IF ~check_for_hand_dist(opts) THEN <<>>
    ELSE hand_dist_loop(opts, cards, 1, [r \in Ranks |-> 0], <<>>)

\* ShapeOptions.hand_dist: sh_ranks
hand_dist(opts, cards) == get_hand_dist_concerns(opts, cards)

-----------------------------------------------------------------------------
(* ShapeIdentifier.  The scratch attributes are the record                 *)
(* [locations, index, path, playable, sh_ranks]; playable holds the list   *)
(* _playable, entry k of the source at position k + 1.  The sentinel False *)
(* the rewind writes compares as the integer 0 in Python.                  *)

FalseVal == 0

\* ShapeIdentifier._set_protected_attrs
_set_protected_attrs ==
    [locations |-> [r \in Ranks |-> <<>>],
     index     |-> 0,
     path      |-> <<>>,
     playable  |-> <<NoneVal, -1, NoneVal, NoneVal, NoneVal, NoneVal>>,
     sh_ranks  |-> <<>>]

\* get_shape_loop without the test of lines 656-657: the copies of a rank
\* that has been played are kept
RECURSIVE get_shape_loop_keeps_copies(_, _, _, _, _, _)
get_shape_loop_keeps_copies(opts, cards, i, is_first, is_played, locations) ==
    IF i > Len(cards) THEN locations
    ELSE LET card == cards[i]
             r == card.rank
         IN  IF is_first[r] /\ is_bdr(opts, card)
             THEN get_shape_loop_keeps_copies(opts, cards, i + 1,
                                 [is_first EXCEPT ![r] = FALSE],
                                 is_played, locations)
             ELSE get_shape_loop_keeps_copies(opts, cards, i + 1,
                                 [is_first EXCEPT ![r] = FALSE],
                                 IF is_played[r - 1]
                                 THEN [is_played EXCEPT ![r] = TRUE]
                                 ELSE is_played,
                                 [locations EXCEPT
                                     ![r] = Append(@, card.location)])

RECURSIVE get_shape_loop(_, _, _, _, _, _)
get_shape_loop(opts, cards, i, is_first, is_played, locations) ==
    IF i > Len(cards) THEN locations
    ELSE LET card == cards[i]
             r == card.rank
         IN  IF is_first[r] /\ is_bdr(opts, card)
             THEN get_shape_loop(opts, cards, i + 1,
                                 [is_first EXCEPT ![r] = FALSE],
                                 is_played, locations)
             ELSE IF is_played[r]
             THEN get_shape_loop(opts, cards, i + 1, is_first, is_played,
                                 locations)
             ELSE get_shape_loop(opts, cards, i + 1,
                                 [is_first EXCEPT ![r] = FALSE],
                                 IF is_played[r - 1]
                                 THEN [is_played EXCEPT ![r] = TRUE]
                                 ELSE is_played,
                                 [locations EXCEPT
                                     ![r] = Append(@, card.location)])

\* ShapeIdentifier.get_shape: the scratch state with _locations and
\* options.sh_ranks set
get_shape(opts, cards) ==
    [_set_protected_attrs EXCEPT
        !.locations = get_shape_loop(opts, cards, 1,
                                     [r \in Ranks |-> TRUE],
                                     [r \in 0..TopRank |-> r = 0],
                                     [r \in Ranks |-> <<>>]),
        !.sh_ranks = hand_dist(opts, cards)]

\* What a call of identify_recurse hands back: the scratch state it leaves,
\* the paths it returns, and whether it raised.
Returned(st, paths) == [st |-> st, paths |-> paths, raised |-> FALSE]

Raised(st) == [st |-> st, paths |-> <<>>, raised |-> TRUE]

\* A rewind that resets _index only and leaves _path and _playable as the
\* earlier branch left them
rewind_index_only(st, rank) == [st EXCEPT !.index = rank]

\* The rewind between the branches of identify_recurse
rewind(st, rank) ==
    [st EXCEPT !.index = rank,
               !.path = Take(@, rank - 1),
               !.playable = Take(@, rank + 1)
                            \o Repeat(FalseVal, Len(@) - (rank + 1))]

RECURSIVE identify_recurse(_)

\* ShapeIdentifier._helper
_helper(st, location, playable) ==
    identify_recurse(
        [st EXCEPT !.path = Append(@, location),
                   !.playable = IF st.index + 1 < Len(@)
                                THEN [@ EXCEPT ![st.index + 2] = playable]
                                ELSE @])

\* The loop over every copy of a rank of the hand-distribution concern set
RECURSIVE sh_loop(_, _, _, _, _, _)
sh_loop(st, rank, locations, playable, i, paths) ==
    IF i > Len(locations) THEN Returned(st, paths)
    ELSE LET r == _helper(st, locations[i], Max(locations[i], playable))
         IN  IF r.raised THEN r
             ELSE sh_loop(rewind(r.st, rank), rank, locations, playable,
                          i + 1, paths \o r.paths)

\* ShapeIdentifier.identify_recurse
identify_recurse(st0) ==
    LET rank == st0.index + 1
        st == [st0 EXCEPT !.index = rank]
    IN  IF rank = TopRank + 1
        THEN Returned([st EXCEPT !.index = rank - 1,
                                 !.path = Take(@, Len(@) - 1)],
                      <<st.path>>)
        ELSE
        LET locations == st.locations[rank]
            playable == st.playable[rank + 1]
            n == Len(locations)
        IN  IF playable = NoneVal THEN Raised(st)
            ELSE IF InSeq(rank, st.sh_ranks)
            THEN sh_loop(st, rank, locations, playable, 1, <<>>)
            ELSE IF n = 0 THEN Raised(st)
            ELSE IF locations[1] > playable
            THEN _helper(st, locations[1], locations[1])
            ELSE IF locations[n] < playable
            THEN _helper(st, locations[n], playable)
            ELSE
            LET attempt == bisect(locations, playable) - 1
            IN  IF attempt + 1 >= n THEN Raised(st)
                ELSE
                LET first == IF attempt < 0 THEN locations[n + 1 + attempt]
                             ELSE locations[attempt + 1]
                    r1 == _helper(st, first, playable)
                    r2 == _helper(rewind(r1.st, rank),
                                  locations[attempt + 2],
                                  locations[attempt + 2])
                IN  IF r1.raised THEN r1
                    ELSE IF r2.raised THEN r2
                    ELSE Returned(r2.st, r1.paths \o r2.paths)

\* ShapeIdentifier.identify; the cards of one suit, each [rank, location]
identify(opts, cards) == identify_recurse(get_shape(opts, cards))

\* _set_protected_attrs with _locations left as the last call had them
_set_protected_attrs_keeps_locations(st) ==
    [st EXCEPT !.index = 0,
               !.path = <<>>,
               !.playable = _set_protected_attrs.playable]

\* ShapeIdentifier._set_protected_attrs on an instance that has been used:
\* sh_ranks, held by the options, is not touched
_set_protected_attrs_on(st) ==
    [st EXCEPT !.locations = _set_protected_attrs.locations,
               !.index = 0,
               !.path = <<>>,
               !.playable = _set_protected_attrs.playable]

\* ShapeIdentifier.get_shape on an instance that has been used
get_shape_on(st, opts, cards) ==
    LET s0 == _set_protected_attrs_on(st)
    IN  [s0 EXCEPT
            !.locations = get_shape_loop(opts, cards, 1,
                                         [r \in Ranks |-> TRUE],
                                         [r \in 0..TopRank |-> r = 0],
                                         s0.locations),
            !.sh_ranks = hand_dist(opts, cards)]

\* ShapeIdentifier.identify on an instance that has been used
identify_on(st, opts, cards) == identify_recurse(get_shape_on(st, opts, cards))

-----------------------------------------------------------------------------
(* PathFinder: enumeration of the paths                                    *)

\* PathFinder.__init__ as Deck.check_for_infeasibility calls it:
\* PathFinder(self, si, 2, 5)
NumPlayers == 2

HandSize == 5

\* PathFinder.capacity
Capacity == HandSize * NumPlayers

RECURSIVE suit_order_loop(_, _, _)
suit_order_loop(d, i, order) ==
    IF i > DeckLen(d) THEN order
    ELSE IF InSeq(d.deck[i].suit, order)
         THEN suit_order_loop(d, i + 1, order)
         ELSE suit_order_loop(d, i + 1, Append(order, d.deck[i].suit))

\* _split_into_suits: the keys of the dict suits, in insertion order
SuitOrder(d) == suit_order_loop(d, 1, <<>>)

RECURSIVE suit_cards_loop(_, _, _, _)
suit_cards_loop(d, suit, i, cards) ==
    IF i > DeckLen(d) THEN cards
    ELSE IF d.deck[i].suit = suit
         THEN suit_cards_loop(d, suit, i + 1,
                              Append(cards, [rank |-> d.deck[i].rank,
                                             location |-> i - 1]))
         ELSE suit_cards_loop(d, suit, i + 1, cards)

\* _split_into_suits: suits[suit], the cards of the suit in deck order
SuitCards(d, suit) == suit_cards_loop(d, suit, 1, <<>>)

RECURSIVE ProductSize(_)
ProductSize(lists) ==
    IF lists = <<>> THEN 1 ELSE Len(Head(lists)) * ProductSize(Tail(lists))

\* Element k (from 0) of itertools.product(*lists): the last list varies
\* fastest.
RECURSIVE ProductAt(_, _)
ProductAt(lists, k) ==
    IF lists = <<>> THEN <<>>
    ELSE LET rest == ProductSize(Tail(lists))
         IN  <<Head(lists)[(k \div rest) + 1]>>
             \o ProductAt(Tail(lists), k % rest)

RECURSIVE pathify_loop(_, _, _)
pathify_loop(locs, i, path) ==
    IF i > Len(locs) THEN path
    ELSE pathify_loop(locs, i + 1, [path EXCEPT ![locs[i] + 1] = TRUE])

\* PathFinder._pathify
_pathify(d, locs) == pathify_loop(locs, 1, Repeat(FALSE, DeckLen(d)))

\* The path of the first suit alone, as without the itertools.chain
PathOfFirstSuit(d, element) == _pathify(d, Head(element))

\* check_for_1p_inf, lines 80-82: a product element to its boolean path
PathOf(d, element) == _pathify(d, Chain(element))

-----------------------------------------------------------------------------
(* PathFinder: the pace and capacity filters                               *)

\* stacks[suit] = max(stacks[suit], 6 - rank)
PinStack(stacks, card) ==
    [stacks EXCEPT ![card.suit + 1] = Max(@, TopRank + 1 - card.rank)]

RECURSIVE pace_loop(_, _, _, _, _)
pace_loop(d, path, pace0, index0, stacks0) ==
    IF ~(pace0 < MaxScore(d)) THEN FALSE
    ELSE LET pace == pace0 + 1
             index == index0 - 1
             stacks == IF PyAt(path, index)
                       THEN PinStack(stacks0, interpret(d, index))
                       ELSE stacks0
         IN  IF SumSeq(stacks) > pace THEN TRUE
             ELSE pace_loop(d, path, pace, index, stacks)

\* _check_for_pace_loss with the two budgets taken for one another
_check_for_pace_loss_swapped(d, path, num_final_plays) ==
    LET index == DeckLen(d) - 1
        zero == Repeat(0, d.nsuits)
        budget == NumPlayers + 1 - num_final_plays
    IN  IF PyAt(path, index)
        THEN IF interpret(d, index).rank # TopRank THEN TRUE
             ELSE pace_loop(d, path, budget, index,
                            PinStack(zero, interpret(d, index)))
        ELSE pace_loop(d, path, budget, index, zero)

\* _check_for_pace_loss without the test of the last card's rank
_check_for_pace_loss_any_last(d, path, num_final_plays) ==
    LET index == DeckLen(d) - 1
        zero == Repeat(0, d.nsuits)
    IN  IF PyAt(path, index)
        THEN pace_loop(d, path, num_final_plays, index,
                       PinStack(zero, interpret(d, index)))
        ELSE pace_loop(d, path, num_final_plays, index, zero)

\* PathFinder._check_for_pace_loss
_check_for_pace_loss(d, path, num_final_plays) ==
    LET index == DeckLen(d) - 1
        zero == Repeat(0, d.nsuits)
    IN  IF PyAt(path, index)
        THEN IF interpret(d, index).rank # TopRank THEN TRUE
             ELSE pace_loop(d, path, num_final_plays, index,
                            PinStack(zero, interpret(d, index)))
        ELSE pace_loop(d, path, num_final_plays, index, zero)

\* Card.value read as a list index: suit_index << 31 | rank is the rank for
\* suit 0 and at least 2^31 for every other suit, past the end of any list
ValueInRange(card, n) == card.suit = 0 /\ card.rank < n

\* check_for_pace_loss, lines 98-103: card.value of the first copy of every
\* distinct card, in deck order
RECURSIVE first_values_loop(_, _, _, _)
first_values_loop(d, i, cards, locations) ==
    IF i > DeckLen(d) THEN locations
    ELSE LET card == d.deck[i]
             value == CardValue(card.suit, card.rank)
         IN  IF value \notin cards
             THEN first_values_loop(d, i + 1, cards \cup {value},
                                    Append(locations, card))
             ELSE first_values_loop(d, i + 1, cards, locations)

\* PathFinder.check_for_pace_loss: the path _pathify builds from the values,
\* the verdict on it, or the IndexError of path[loc] = True
check_for_pace_loss(d) ==
    LET locations == first_values_loop(d, 1, {}, <<>>)
    IN  IF \E k \in 1..Len(locations) :
              ~ValueInRange(locations[k], DeckLen(d))
        THEN [raised |-> TRUE, path |-> <<>>, value |-> FALSE]
        ELSE LET path == _pathify(d, [k \in 1..Len(locations) |->
                                         locations[k].rank])
             IN  [raised |-> FALSE, path |-> path,
                  value |-> _check_for_pace_loss(d, path, NumPlayers)]

\* The cascade of a play: while the next card of the suit is held, it plays
RECURSIVE cascade(_, _, _)
cascade(hand, stacks, newly_playable) ==
    IF newly_playable \in hand
    THEN cascade(hand \ {newly_playable},
                 [stacks EXCEPT ![newly_playable[1] + 1] = @ + 1],
                 NextValue(newly_playable))
    ELSE [hand |-> hand, stacks |-> stacks]

\* PlayOrHold with the else branch of lines 214-215 left out: a card that
\* is not playable goes to the trash
PlayOrTrash(hand, stacks, card) ==
    IF stacks[card.suit + 1] = card.rank - 1
    THEN cascade(hand, [stacks EXCEPT ![card.suit + 1] = @ + 1],
                 NextValue(CardValue(card.suit, card.rank)))
    ELSE [hand |-> hand, stacks |-> stacks]

\* The body shared by the left-to-right walks: the card plays (and
\* cascades) or joins the hand
PlayOrHold(hand, stacks, card) ==
    IF stacks[card.suit + 1] = card.rank - 1
    THEN cascade(hand, [stacks EXCEPT ![card.suit + 1] = @ + 1],
                 NextValue(CardValue(card.suit, card.rank)))
    ELSE [hand |-> hand \cup {CardValue(card.suit, card.rank)},
          stacks |-> stacks]

RECURSIVE capacity_loop(_, _, _, _, _, _)
capacity_loop(d, path, capacity, index, hand, stacks) ==
    IF index >= Len(path) THEN FALSE
    ELSE IF ~path[index + 1]
    THEN capacity_loop(d, path, capacity, index + 1, hand, stacks)
    ELSE LET card == interpret(d, index)
             playable == stacks[card.suit + 1] = card.rank - 1
             next == PlayOrHold(hand, stacks, card)
         IN  IF ~playable /\ Cardinality(next.hand) = capacity THEN TRUE
             ELSE capacity_loop(d, path, capacity, index + 1, next.hand,
                                next.stacks)

\* The hand at the end of the walk of a mask, no loss reported on the way
RECURSIVE final_hand(_, _, _, _, _)
final_hand(d, path, index, hand, stacks) ==
    IF index >= Len(path) THEN hand
    ELSE IF ~path[index + 1]
    THEN final_hand(d, path, index + 1, hand, stacks)
    ELSE LET next == PlayOrHold(hand, stacks, interpret(d, index))
         IN  final_hand(d, path, index + 1, next.hand, next.stacks)

\* _check_for_capacity_loss with the test moved behind the loop: a loss
\* only if the hand is full when the deck runs out
_check_for_capacity_loss_at_end(d, path, capacity) ==
    Cardinality(final_hand(d, path, 0, {}, Repeat(0, d.nsuits))) = capacity

\* PathFinder._check_for_capacity_loss
_check_for_capacity_loss(d, path, capacity) ==
    capacity_loop(d, path, capacity, 0, {}, Repeat(0, d.nsuits))

-----------------------------------------------------------------------------
(* PathFinder: pace-zero breakpoints                                       *)

RECURSIVE breakpoints_loop(_, _, _, _, _, _, _)
breakpoints_loop(d, path, value, pace0, index0, stacks0, locations) ==
    IF ~(pace0 < MaxScore(d)) THEN locations
    ELSE LET pace == pace0 + 1
             index == index0 - 1
             stacks == IF PyAt(path, index)
                       THEN PinStack(stacks0, interpret(d, index))
                       ELSE stacks0
         IN  IF SumSeq(stacks) = pace + value
             THEN breakpoints_loop(d, path, value, pace, index, stacks,
                                   Append(locations, index))
             ELSE breakpoints_loop(d, path, value, pace, index, stacks,
                                   locations)

\* _get_pace_breakpoints with the pace of one player
_get_pace_breakpoints_single(d, path, value) ==
    LET index == DeckLen(d) - 1
        zero == Repeat(0, d.nsuits)
    IN  breakpoints_loop(d, path, value, 1, index,
                         IF PyAt(path, index)
                         THEN PinStack(zero, interpret(d, index))
                         ELSE zero,
                         <<>>)

\* PathFinder._get_pace_breakpoints: the list locations, latest first
_get_pace_breakpoints(d, path, value) ==
    LET index == DeckLen(d) - 1
        zero == Repeat(0, d.nsuits)
    IN  breakpoints_loop(d, path, value, NumPlayers, index,
                         IF PyAt(path, index)
                         THEN PinStack(zero, interpret(d, index))
                         ELSE zero,
                         <<>>)

\* The connectors of a breakpoint after the first: the suits whose stack
\* grew since the previous breakpoint
RECURSIVE connector_list(_, _, _)
connector_list(curr, prev, suit_index) ==
    IF suit_index >= Len(curr) THEN <<>>
    ELSE (IF curr[suit_index + 1] - prev[suit_index + 1] > 0
          THEN <<<<suit_index + 1, curr[suit_index + 1]>>>>
          ELSE <<>>)
         \o connector_list(curr, prev, suit_index + 1)

\* The loop of _get_breakpoint_connectors; c is the record of its locals
RECURSIVE connectors_loop(_, _, _, _)
connectors_loop(d, path, index, c) ==
    IF index >= Len(path) THEN c
    ELSE IF ~path[index + 1] THEN connectors_loop(d, path, index + 1, c)
    ELSE IF c.locations = <<>> THEN [c EXCEPT !.raised = TRUE]
    ELSE
    LET card == interpret(d, index)
        hit == index = c.locations[Len(c.locations)]
        curr == c.stacks
        c1 == IF ~hit THEN c
              ELSE [c EXCEPT
                    !.locations = Take(@, Len(@) - 1),
                    !.locs_to_stacks = [@ EXCEPT ![index] = curr],
                    !.locs_to_entries = [@ EXCEPT ![index] =
                        IF c.reached_pace_zero
                        THEN [anything |-> FALSE,
                              connectors |->
                                  connector_list(curr, c.prev, 0)]
                        ELSE [anything |-> TRUE, connectors |-> <<>>]],
                    !.reached_pace_zero = TRUE,
                    !.prev = curr]
        next == PlayOrHold(c.hand, c.stacks, card)
    IN  IF hit /\ c1.locations = <<>> THEN c1
        ELSE connectors_loop(d, path, index + 1,
                             [c1 EXCEPT !.hand = next.hand,
                                        !.stacks = next.stacks])

\* PathFinder._get_breakpoint_connectors: locs_to_entries and
\* locs_to_stacks, keyed by the breakpoints
_get_breakpoint_connectors(d, path, locations) ==
    LET keys == {locations[i] : i \in 1..Len(locations)}
    IN  connectors_loop(d, path, 0,
            [locations         |-> locations,
             locs_to_entries   |-> [loc \in keys |->
                                    [anything |-> FALSE,
                                     connectors |-> <<>>]],
             locs_to_stacks    |-> [loc \in keys |-> <<>>],
             hand              |-> {},
             stacks            |-> Repeat(0, d.nsuits),
             prev              |-> Repeat(0, d.nsuits),
             reached_pace_zero |-> FALSE,
             raised            |-> FALSE])

-----------------------------------------------------------------------------
(* PathFinder._solve_breakpoint                                            *)

\* The entries of a finite set of integers, ascending
RECURSIVE SortedSeq(_)
SortedSeq(S) ==
    IF S = {} THEN <<>>
    ELSE LET m == SetMin(S) IN <<m>> \o SortedSeq(S \ {m})

\* (suit, rank) as card.interpret() returns it
Tup(card) == <<card.suit, card.rank>>

\* PathCards that starts at the top of the deck whatever lo is
RECURSIVE PathCardsFromTop(_, _, _, _)
PathCardsFromTop(d, path, lo, hi) ==
    IF hi <= 0 THEN <<>>
    ELSE PathCardsFromTop(d, path, lo, hi - 1)
         \o (IF hi <= DeckLen(d) /\ path[hi]
             THEN <<Tup(interpret(d, hi - 1))>> ELSE <<>>)

\* [card.interpret() for index, card in enumerate(deck[lo:hi])
\*  if path[index + lo]]
RECURSIVE PathCards(_, _, _, _)
PathCards(d, path, lo, hi) ==
    IF lo >= hi \/ lo >= DeckLen(d) THEN <<>>
    ELSE (IF path[lo + 1] THEN <<Tup(interpret(d, lo))>> ELSE <<>>)
         \o PathCards(d, path, lo + 1, hi)

\* _assign_helper that looks at the first starting hand only
_assign_helper_first_hand(t, h1, h2, anti) ==
    IF ~anti
    THEN InSeq(t[1], h1) /\ InSeq(t[2], h1)
    ELSE InSeq(t[1], h1) /\ InSeq(t[2], h2)

\* _assign_helper that takes no notice of anti
_assign_helper_same_only(t, h1, h2, anti) ==
    \/ InSeq(t[1], h1) /\ InSeq(t[2], h1)
    \/ InSeq(t[1], h2) /\ InSeq(t[2], h2)

\* PathFinder._assign_helper
_assign_helper(t, h1, h2, anti) ==
    IF ~anti
    THEN \/ InSeq(t[1], h1) /\ InSeq(t[2], h1)
         \/ InSeq(t[1], h2) /\ InSeq(t[2], h2)
    ELSE \/ InSeq(t[1], h1) /\ InSeq(t[2], h2)
         \/ InSeq(t[1], h2) /\ InSeq(t[2], h1)

\* [tup for tup in hand if stacks[tup[0]] < tup[1]]
RECURSIVE UnplayedOf(_, _)
UnplayedOf(hand, stacks) ==
    IF hand = <<>> THEN <<>>
    ELSE (IF stacks[Head(hand)[1] + 1] < Head(hand)[2]
          THEN <<Head(hand)>> ELSE <<>>)
         \o UnplayedOf(Tail(hand), stacks)

\* Step two that never marks the ending unique
IsNeverUnique(stacks) == FALSE

\* Step two: exactly one suit of the last breakpoint is below rank 5
IsUnique(stacks) ==
    Cardinality({i \in 1..Len(stacks) : stacks[i] # TopRank}) = 1

\* Step three: the endings no starting hand blocks, 5+5 first, then 4+5
ValidAssigns(d, stacks, hand1, hand2) ==
    LET S == d.nsuits
        below5 == {i \in 0..(Len(stacks) - 1) : stacks[i + 1] < 5}
        below4 == {i \in 0..(Len(stacks) - 1) : stacks[i + 1] < 4}
        pairs == {i * S + j : i \in below5, j \in below5}
        fives == {c \in pairs :
                    /\ c \div S # c % S
                    /\ ~_assign_helper(<<<<c \div S, 5>>, <<c % S, 5>>>>,
                                       hand1, hand2, FALSE)}
        fours == {i \in below4 :
                    ~_assign_helper(<<<<i, 4>>, <<i, 5>>>>, hand1, hand2,
                                    FALSE)}
        f5 == SortedSeq(fives)
        f4 == SortedSeq(fours)
    IN  [k \in 1..Len(f5) |-> <<<<f5[k] \div S, 5>>, <<f5[k] % S, 5>>>>]
        \o [k \in 1..Len(f4) |-> <<<<f4[k], 4>>, <<f4[k], 5>>>>]

\* An entry of turns_playable: None, or the list of recorded turns
NoTurns == [isnone |-> TRUE, turns |-> <<>>]

\* InitTurns with a list also for the top card of every stack
InitTurnsInclusive(d, stacks) ==
    [index \in 0..MaxScore(d) |->
        IF /\ index >= 1
           /\ ((index - 1) % 5) + 1 >= stacks[((index - 1) \div 5) + 1]
        THEN [isnone |-> FALSE, turns |-> <<>>]
        ELSE NoTurns]

\* Step four: turns_playable as initialised, a list for every card above
\* the stacks of the first breakpoint
InitTurns(d, stacks) ==
    [index \in 0..MaxScore(d) |->
        IF /\ index >= 1
           /\ ((index - 1) % 5) + 1 > stacks[((index - 1) \div 5) + 1]
        THEN [isnone |-> FALSE, turns |-> <<>>]
        ELSE NoTurns]

\* Step four: the hand recovered at the first breakpoint
RecoverHand(d, path, location, stacks) ==
    {CardValue(interpret(d, i).suit, interpret(d, i).rank) :
        i \in {j \in 0..location :
                 /\ path[j + 1]
                 /\ interpret(d, j).rank > stacks[interpret(d, j).suit + 1]}}

\* DrawInto that draws nothing
DrawNothing(d, path, draw_loc, hand) == hand

\* if draw_loc < len(path) and path[draw_loc]: hand.add(card.value)
DrawInto(d, path, draw_loc, hand) ==
    IF draw_loc < Len(path) /\ path[draw_loc + 1]
    THEN hand \cup {CardValue(interpret(d, draw_loc).suit,
                              interpret(d, draw_loc).rank)}
    ELSE hand

\* AppendTurn with the turn put in front of the list
PrependTurn(e, index, draw_loc) ==
    IF index \notin DOMAIN e.turns_playable THEN [e EXCEPT !.raised = TRUE]
    ELSE IF e.turns_playable[index].isnone THEN [e EXCEPT !.raised = TRUE]
    ELSE [e EXCEPT !.turns_playable[index].turns = <<draw_loc>> \o @]

\* turns_playable[index].append(draw_loc); raises on None or past the end
AppendTurn(e, index, draw_loc) ==
    IF index \notin DOMAIN e.turns_playable THEN [e EXCEPT !.raised = TRUE]
    ELSE IF e.turns_playable[index].isnone THEN [e EXCEPT !.raised = TRUE]
    ELSE [e EXCEPT !.turns_playable[index].turns = Append(@, draw_loc)]

\* Earliest turns: one turn, every suit whose next card is held plays it
RECURSIVE earliest_suits(_, _, _)
earliest_suits(e, draw_loc, suit) ==
    IF suit >= Len(e.stacks) \/ e.raised THEN e
    ELSE LET rank == e.stacks[suit + 1] + 1
             value == CardValue(suit, rank)
         IN  IF value \in e.hand
             THEN earliest_suits(
                      AppendTurn([e EXCEPT !.hand = @ \ {value},
                                           !.stacks[suit + 1] = @ + 1],
                                 CardIndex(suit, rank), draw_loc),
                      draw_loc, suit + 1)
             ELSE earliest_suits(e, draw_loc, suit + 1)

RECURSIVE earliest_loop(_, _, _, _)
earliest_loop(d, path, draw_loc, e) ==
    IF draw_loc >= Len(path) + 2 \/ e.raised THEN e
    ELSE LET e1 == earliest_suits(e, draw_loc, 0)
         IN  earliest_loop(d, path, draw_loc + 1,
                 [e1 EXCEPT !.hand = DrawInto(d, path, draw_loc, @)])

\* Latest turns for chosen_suit: a card of another suit plays if one can,
\* else the next card of the chosen suit, whose turn is recorded
RECURSIVE latest_loop(_, _, _, _, _)
latest_loop(d, path, chosen_suit, draw_loc, e) ==
    IF draw_loc >= Len(path) + 2 \/ e.raised THEN e
    ELSE
    LET others == {suit \in 0..(Len(e.stacks) - 1) :
                     /\ suit # chosen_suit
                     /\ CardValue(suit, e.stacks[suit + 1] + 1) \in e.hand}
        found == others # {}
        suit == IF found THEN SetMin(others) ELSE chosen_suit
        rank == e.stacks[suit + 1] + 1
        value == CardValue(suit, rank)
        e1 == IF found THEN e
              ELSE AppendTurn(e, CardIndex(suit, rank), draw_loc)
    IN  IF e1.raised THEN e1
        ELSE IF value \notin e1.hand THEN [e1 EXCEPT !.raised = TRUE]
        ELSE latest_loop(d, path, chosen_suit, draw_loc + 1,
                 [e1 EXCEPT !.hand = DrawInto(d, path, draw_loc,
                                              @ \ {value}),
                            !.stacks[suit + 1] = @ + 1])

RECURSIVE latest_all(_, _, _, _, _, _, _)
latest_all(d, path, location, stacks, hand, chosen_suit, e) ==
    IF chosen_suit >= d.nsuits \/ e.raised THEN e
    ELSE latest_all(d, path, location, stacks, hand, chosen_suit + 1,
             latest_loop(d, path, chosen_suit, location + 1,
                         [e EXCEPT !.stacks = stacks, !.hand = hand]))

\* Step four, whole: turns_playable, and whether the step raised
TurnsPlayable(d, path, location, stacks) ==
    LET hand == RecoverHand(d, path, location, stacks)
        e0 == [hand |-> hand, stacks |-> stacks,
               turns_playable |-> InitTurns(d, stacks), raised |-> FALSE]
        e1 == earliest_loop(d, path, location + 1, e0)
    IN  latest_all(d, path, location, stacks, hand, 0, e1)

\* The data validation that ends step four holds of an entry
ValidEntry(entry) ==
    entry.isnone \/ (Len(entry.turns) = 2 /\ entry.turns[2] >= entry.turns[1])

\* Step five: precursors and successors, filled position by position from
\* the first breakpoint on
RECURSIVE links_loop(_, _, _, _, _)
links_loop(d, path, turns_playable, deck_loc, g) ==
    IF deck_loc >= DeckLen(d) THEN g
    ELSE IF ~path[deck_loc + 1]
    THEN links_loop(d, path, turns_playable, deck_loc + 1, g)
    ELSE
    LET card == interpret(d, deck_loc)
        ci == CardIndex(card.suit, card.rank)
        pres == {pre_index \in DOMAIN turns_playable :
                   /\ ~turns_playable[pre_index].isnone
                   /\ turns_playable[pre_index].turns[1] <= deck_loc
                   /\ deck_loc <= turns_playable[pre_index].turns[2]}
    IN  links_loop(d, path, turns_playable, deck_loc + 1,
            [precursors |-> [g.precursors EXCEPT
                                ![ci] = @ \o SortedSeq(pres)],
             successors |-> [k \in DOMAIN g.successors |->
                                IF k \in pres
                                THEN Append(g.successors[k], ci)
                                ELSE g.successors[k]]])

\* connect_loop that marks the successors of every card of the path
RECURSIVE connect_loop_all(_, _, _, _, _)
connect_loop_all(d, path, successors, deck_loc, connectors) ==
    IF deck_loc >= DeckLen(d) THEN connectors
    ELSE IF ~path[deck_loc + 1]
    THEN connect_loop_all(d, path, successors, deck_loc + 1, connectors)
    ELSE
    LET card == interpret(d, deck_loc)
        ci == CardIndex(card.suit, card.rank)
    IN  connect_loop_all(d, path, successors, deck_loc + 1,
            [k \in DOMAIN connectors |->
                connectors[k] \/ InSeq(k, successors[ci])])

\* Step five: the single pass that marks what the card at the first
\* breakpoint leads to
RECURSIVE connect_loop(_, _, _, _, _)
connect_loop(d, path, successors, deck_loc, connectors) ==
    IF deck_loc >= DeckLen(d) THEN connectors
    ELSE IF ~path[deck_loc + 1]
    THEN connect_loop(d, path, successors, deck_loc + 1, connectors)
    ELSE
    LET card == interpret(d, deck_loc)
        ci == CardIndex(card.suit, card.rank)
    IN  connect_loop(d, path, successors, deck_loc + 1,
            IF connectors[ci]
            THEN [k \in DOMAIN connectors |->
                    connectors[k] \/ InSeq(k, successors[ci])]
            ELSE connectors)

\* for pre_index in precursors[index]: queue it unless already queued
RECURSIVE enqueue(_, _, _, _)
enqueue(pres, i, queue, already_queued) ==
    IF i > Len(pres)
    THEN [queue |-> queue, already_queued |-> already_queued]
    ELSE IF pres[i] \in already_queued
    THEN enqueue(pres, i + 1, queue, already_queued)
    ELSE enqueue(pres, i + 1, Append(queue, pres[i]),
                 already_queued \cup {pres[i]})

\* Step five, unique decks: the walk back from the 3 of the suit; good_dist
RECURSIVE unique_walk(_, _, _, _, _, _)
unique_walk(suit, precursors, hand1, hand2, queue, already_queued) ==
    IF queue = <<>> THEN FALSE
    ELSE
    LET index == queue[Len(queue)]
        rest == Take(queue, Len(queue) - 1)
        suit2 == (index - 1) \div 5
        rank2 == ((index - 1) % 5) + 1
    IN  IF _assign_helper(<<<<suit, 4>>, <<suit2, rank2>>>>, hand1, hand2,
                          FALSE)
        THEN unique_walk(suit, precursors, hand1, hand2, rest,
                         already_queued)
        ELSE IF _assign_helper(<<<<suit, 5>>, <<suit2, rank2>>>>, hand1,
                               hand2, TRUE)
        THEN unique_walk(suit, precursors, hand1, hand2, rest,
                         already_queued)
        ELSE IF precursors[index] = <<>> THEN TRUE
        ELSE LET q == enqueue(precursors[index], 1, rest, already_queued)
             IN  unique_walk(suit, precursors, hand1, hand2, q.queue,
                             q.already_queued)

\* What _solve_breakpoint hands back: the returned boolean, or that it
\* raised
Verdict(v) == [value |-> v, raised |-> FALSE]

SolverRaised == [value |-> FALSE, raised |-> TRUE]

\* Steps four and five of _solve_breakpoint
TimingAndConnectivity(d, path, location, stacks, hand1, hand2, pace0, valid_assigns, unique) ==
    LET e == TurnsPlayable(d, path, location, stacks)
        turns_playable == e.turns_playable
        empty == [k \in 0..MaxScore(d) |-> <<>>]
        g == links_loop(d, path, turns_playable, location,
                        [precursors |-> empty, successors |-> empty])
        start == interpret(d, location)
        connectors ==
            connect_loop(d, path, g.successors, location,
                [k \in 0..MaxScore(d) |->
                    k = CardIndex(start.suit, start.rank)])
        end == \E a \in 1..Len(valid_assigns) : \E i \in 1..2 :
                  connectors[CardIndex(valid_assigns[a][i][1],
                                       valid_assigns[a][i][2])]
        degrees_of_freedom ==
            MaxScore(d) - SumSeq(stacks)
            - (Len(hand1) + Len(hand2) + Len(pace0))
        suit == valid_assigns[1][1][1]
        queue == g.precursors[CardIndex(suit, 3)]
        good_dist ==
            \/ queue = <<>>
            \/ unique_walk(suit, g.precursors, hand1, hand2, queue,
                           {queue[i] : i \in 1..Len(queue)})
    IN  IF e.raised THEN SolverRaised
        ELSE IF \E k \in DOMAIN turns_playable :
                    ~ValidEntry(turns_playable[k])
        THEN SolverRaised
        ELSE IF /\ ~end
                /\ degrees_of_freedom = 0
                /\ (Len(hand1) = 0 \/ Len(hand2) = 0)
        THEN Verdict(TRUE)
        ELSE IF unique /\ ~good_dist THEN Verdict(TRUE)
        ELSE Verdict(FALSE)

\* PathFinder._solve_breakpoint; bp is what _get_breakpoint_connectors
\* returned
_solve_breakpoint(d, path, bp) ==
    LET keys == DOMAIN bp.locs_to_entries
        first == SetMin(keys)
        last == SetMax(keys)
        stacks0 == bp.locs_to_stacks[first]
        raw1 == PathCards(d, path, 0, 5)
        raw2 == PathCards(d, path, 5, 10)
        hand1 == UnplayedOf(raw1, stacks0)
        hand2 == UnplayedOf(raw2, stacks0)
        pace0 == PathCards(d, path, first, DeckLen(d))
        stacksf == bp.locs_to_stacks[last]
        unique == IsUnique(stacksf)
        valid_assigns == ValidAssigns(d, stacksf, hand1, hand2)
        suit == valid_assigns[1][1][1]
        early == \E a \in 1..Len(valid_assigns) :
                    /\ ~InSeq(valid_assigns[a][1], pace0)
                    /\ ~InSeq(valid_assigns[a][2], pace0)
    IN  IF keys = {} THEN SolverRaised
        ELSE IF stacks0 = <<>> /\ (raw1 # <<>> \/ raw2 # <<>>)
        THEN SolverRaised
        ELSE IF Len(valid_assigns) = 0 THEN Verdict(TRUE)
        ELSE IF unique /\ _assign_helper(<<<<suit, 3>>, <<suit, 4>>>>,
                                         hand1, hand2, FALSE)
        THEN Verdict(TRUE)
        ELSE IF unique /\ _assign_helper(<<<<suit, 3>>, <<suit, 5>>>>,
                                         hand1, hand2, TRUE)
        THEN Verdict(TRUE)
        ELSE IF early /\ ~unique THEN Verdict(FALSE)
        ELSE TimingAndConnectivity(d, path, first, stacks0, hand1, hand2,
                                   pace0, valid_assigns, unique)

\* PathFinder._check_for_dist_loss
_check_for_dist_loss(d, path) ==
    LET locations == _get_pace_breakpoints(d, path, 0)
        bp == _get_breakpoint_connectors(d, path, locations)
    IN  IF bp.raised THEN SolverRaised
        ELSE _solve_breakpoint(d, path, bp)

-----------------------------------------------------------------------------
(* PathFinder: the verdict                                                 *)

\* _suitify2: si.identify for the suits from position i of the order on;
\* the tuple of SuitPaths of every suit, and whether identify raised
RECURSIVE suitify_loop(_, _, _, _, _)
suitify_loop(d, opts, order, i, paths) ==
    IF i > Len(order) THEN [paths |-> paths, raised |-> FALSE]
    ELSE LET r == identify(opts, SuitCards(d, order[i]))
         IN  IF r.raised THEN [paths |-> paths, raised |-> TRUE]
             ELSE suitify_loop(d, opts, order, i + 1,
                               Append(paths, r.paths))

\* PathFinder._suitify2: the lists whose product is iterated
_suitify2(d, opts) == suitify_loop(d, opts, SuitOrder(d), 1, <<>>)

\* The locals of check_for_1p_inf before its loop
LoopStart ==
    [proved_infeasible |-> TRUE, found_pace_one |-> FALSE,
     dist_paths |-> <<>>]

\* LoopBody that keeps the pace-zero paths met before a path with pace
\* to spare
LoopBodySticky(d, st, path) ==
    IF _check_for_capacity_loss(d, path, Capacity) THEN st
    ELSE IF _check_for_pace_loss(d, path, NumPlayers) THEN st
    ELSE IF ~_check_for_pace_loss(d, path, 1)
    THEN [st EXCEPT !.proved_infeasible = FALSE,
                    !.found_pace_one = st.dist_paths = <<>>]
    ELSE [st EXCEPT !.dist_paths = Append(@, path)]

\* One iteration of the loop of check_for_1p_inf on the boolean path
LoopBody(d, st, path) ==
    IF _check_for_capacity_loss(d, path, Capacity) THEN st
    ELSE IF _check_for_pace_loss(d, path, NumPlayers) THEN st
    ELSE IF ~_check_for_pace_loss(d, path, 1)
    THEN [st EXCEPT !.found_pace_one = TRUE, !.proved_infeasible = FALSE]
    ELSE [st EXCEPT !.dist_paths = Append(@, path)]

RECURSIVE paths_loop(_, _, _, _)
paths_loop(d, lists, k, st) ==
    IF k >= ProductSize(lists) \/ st.found_pace_one THEN st
    ELSE paths_loop(d, lists, k + 1,
                    LoopBody(d, st, PathOf(d, ProductAt(lists, k))))

\* PathFinder.check_for_1p_inf on the product of the lists
check_for_1p_inf(d, lists) ==
    LET st == paths_loop(d, lists, 0, LoopStart)
    IN  [proved_infeasible |-> st.proved_infeasible,
         dist_paths |-> IF st.found_pace_one THEN <<>> ELSE st.dist_paths]

\* all(self._check_for_dist_loss(path) for path in paths), from path i on
RECURSIVE all_dist_loss(_, _, _)
all_dist_loss(d, paths, i) ==
    IF i > Len(paths) THEN Verdict(TRUE)
    ELSE LET r == _check_for_dist_loss(d, paths[i])
         IN  IF r.raised THEN r
             ELSE IF ~r.value THEN Verdict(FALSE)
             ELSE all_dist_loss(d, paths, i + 1)

\* The returned pair (infeasible, forced_to_pace_zero)
Pair(inf, forced) == [infeasible |-> inf, forced |-> forced,
                      raised |-> FALSE, none |-> FALSE]

RaisedPair == [infeasible |-> FALSE, forced |-> FALSE, raised |-> TRUE,
               none |-> FALSE]

\* No pair returned yet
NoResult == [infeasible |-> FALSE, forced |-> FALSE, raised |-> FALSE,
             none |-> TRUE]

\* PathFinder.check_for_infeasibility
check_for_infeasibility(d, opts) ==
    LET lists == _suitify2(d, opts)
        r == check_for_1p_inf(d, lists.paths)
        dist == all_dist_loss(d, r.dist_paths, 1)
    IN  IF lists.raised THEN RaisedPair
        ELSE IF Len(r.dist_paths) = 0
        THEN Pair(r.proved_infeasible, FALSE)
        ELSE IF dist.raised THEN RaisedPair
        ELSE Pair(dist.value, TRUE)

-----------------------------------------------------------------------------
(* The decks and the options a run starts from                             *)

\* Adjacent transpositions one shuffle applies at most
MaxSwaps == 1

\* A deck written as one number per card, 10 * suit + rank, the way a
\* printout names its cards by suit and rank digit
FromCodes(codes, n) ==
    [deck |-> [i \in 1..Len(codes) |->
                  [suit |-> codes[i] \div 10, rank |-> codes[i] % 10]],
     nsuits |-> n]

SeedDecks ==
    { FromCodes(<<2, 14, 4, 13, 14, 4, 13, 12, 3, 11, 15, 13, 15, 12, 14, 1,
                  14, 12, 5, 1>>, 2),
      FromCodes(<<14, 25, 22, 2, 12, 24, 5, 15, 11, 4, 23, 21, 3, 11, 13, 1>>, 3),
      FromCodes(<<11, 4, 13, 5, 5, 2, 12, 15, 14, 11, 1, 11, 11, 3, 5, 13>>, 2),
      FromCodes(<<3, 2, 23, 5, 4, 2, 24, 3, 15, 25, 12, 23, 12, 13, 4, 11, 21,
                  1, 21, 21, 14, 1, 22, 11, 11, 22, 13, 24, 14, 1>>, 3),
      FromCodes(<<1, 11, 1, 11, 2, 12, 3, 13, 4, 5, 15, 14>>, 2),
      FromCodes(<<5, 1, 11, 2, 12, 3, 13, 4, 14, 15, 1, 11, 1, 11, 2, 12, 3,
                  13>>, 2),
      FromCodes(<<11, 1, 2, 12, 14, 5, 1, 13, 15, 3, 4, 3>>, 2),
      FromCodes(<<15, 14, 4, 5, 1, 13, 2, 12, 3, 1, 11, 14, 14, 3, 3>>, 2),
      FromCodes(<<2, 3, 3, 2, 4, 2, 5, 1, 3, 4, 2>>, 1),
      FromCodes(<<4, 3, 2, 1, 3, 12, 15, 11, 14, 4, 13, 14, 5>>, 2),
      FromCodes(<<5, 13, 11, 12, 1, 15, 3, 4, 14, 2, 2, 14, 11>>, 2) }

\* ShapeOptions as constructed: the default, and without a hand capacity
OptionSets ==
    { [hand_capacity |-> DefaultHandCapacity, bdrs |-> {}],
      [hand_capacity |-> NoneVal, bdrs |-> {}],
      [hand_capacity |-> DefaultHandCapacity, bdrs |-> {2}] }

\* The deck of the current state as the solver reads it
TheDeck == [deck |-> deck, nsuits |-> nsuits]

-----------------------------------------------------------------------------
(* The solve, step by step                                                 *)

InitSolver ==
    /\ suit_idx = 0
    /\ suit_paths = <<>>
    /\ path_idx = 0
    /\ proved_infeasible = TRUE
    /\ found_pace_one = FALSE
    /\ dist_paths = <<>>
    /\ dist_idx = 0
    /\ dist_called = <<>>
    /\ last_path = <<>>

InitGame ==
    /\ hands = <<>>
    /\ play_stacks = <<>>
    /\ discard_pile = <<>>
    /\ draw_pile_size = 0
    /\ current_player = 0
    /\ final_turns = -1
    /\ score = 0

\* No mask has been handed to a filter
InitTest ==
    /\ mask = <<>>
    /\ mask_loss = FALSE
    /\ id_cards = <<>>
    /\ id_result = [paths |-> <<>>, raised |-> FALSE]
    /\ variant = [suit_names |-> <<>>, suits |-> <<>>]
    /\ printout = <<>>
    /\ parsed = [deck |-> <<>>, raised |-> FALSE]

Init ==
    /\ \E d \in SeedDecks : deck = d.deck /\ nsuits = d.nsuits
    /\ options \in OptionSets
    /\ nswaps = 0
    /\ pc = "deck"
    /\ result = NoResult
    /\ si = _set_protected_attrs
    /\ InitSolver
    /\ InitGame
    /\ InitTest

\* Deck.shuffle: one transposition of the shuffle
ShuffleSwap ==
    /\ pc = "deck"
    /\ nswaps < MaxSwaps
    /\ \E i \in 1..(Len(deck) - 1) :
          /\ deck[i] # deck[i + 1]
          /\ deck' = [deck EXCEPT ![i] = deck[i + 1], ![i + 1] = deck[i]]
    /\ nswaps' = nswaps + 1
    /\ UNCHANGED <<nsuits, options, pc, result, solver_vars, game_vars,
                   si, test_vars>>

\* _suitify2: one iteration, si.identify on the cards of the next suit
Suitify ==
    /\ pc \in {"deck", "suitify"}
    /\ \E order \in {SuitOrder(TheDeck)} :
       \E cards \in {SuitCards(TheDeck, order[suit_idx + 1])} :
       \E r \in {identify_on(si, options, cards)} :
       LET last == suit_idx + 1 = Len(order)
       IN  /\ suit_idx < Len(order)
           /\ suit_paths' = IF r.raised THEN suit_paths
                            ELSE Append(suit_paths, r.paths)
           /\ pc' = IF r.raised THEN "raised"
                    ELSE IF last THEN "paths" ELSE "suitify"
           /\ result' = IF r.raised THEN RaisedPair ELSE result
           /\ si' = r.st
    /\ suit_idx' = suit_idx + 1
    /\ UNCHANGED <<deck, nsuits, options, nswaps, path_idx,
                   proved_infeasible, found_pace_one, dist_paths, dist_idx,
                   dist_called, last_path, game_vars,
                   test_vars>>

\* The boolean path of the next element of the product
NextPath == PathOf(TheDeck, ProductAt(suit_paths, path_idx))

InLoop ==
    /\ pc = "paths"
    /\ ~found_pace_one
    /\ path_idx < ProductSize(suit_paths)

\* check_for_1p_inf, lines 83-84: the path is a capacity loss
CapacityLoss ==
    /\ InLoop
    /\ \E path \in {NextPath} :
          /\ _check_for_capacity_loss(TheDeck, path, Capacity)
          /\ last_path' = path
    /\ path_idx' = path_idx + 1
    /\ UNCHANGED <<deck, nsuits, options, nswaps, pc, suit_idx, suit_paths,
                   proved_infeasible, found_pace_one, dist_paths, dist_idx,
                   dist_called, result, game_vars,
                   si, test_vars>>

\* check_for_1p_inf, lines 85-86: the path is a pace loss for the team
PaceLoss ==
    /\ InLoop
    /\ \E path \in {NextPath} :
          /\ ~_check_for_capacity_loss(TheDeck, path, Capacity)
          /\ _check_for_pace_loss(TheDeck, path, NumPlayers)
          /\ last_path' = path
    /\ path_idx' = path_idx + 1
    /\ UNCHANGED <<deck, nsuits, options, nswaps, pc, suit_idx, suit_paths,
                   proved_infeasible, found_pace_one, dist_paths, dist_idx,
                   dist_called, result, game_vars,
                   si, test_vars>>

\* FoundPaceOne without line 89: proved_infeasible keeps its value
FoundPaceOneStillProved ==
    /\ InLoop
    /\ \E path \in {NextPath} :
          /\ ~_check_for_capacity_loss(TheDeck, path, Capacity)
          /\ ~_check_for_pace_loss(TheDeck, path, NumPlayers)
          /\ ~_check_for_pace_loss(TheDeck, path, 1)
          /\ last_path' = path
    /\ found_pace_one' = TRUE
    /\ path_idx' = path_idx + 1
    /\ UNCHANGED <<deck, nsuits, options, nswaps, pc, suit_idx, suit_paths,
                   proved_infeasible, dist_paths, dist_idx, dist_called,
                   result, game_vars,
                   si, test_vars>>

\* check_for_1p_inf, lines 87-90: no pace loss with one final play; break
FoundPaceOne ==
    /\ InLoop
    /\ \E path \in {NextPath} :
          /\ ~_check_for_capacity_loss(TheDeck, path, Capacity)
          /\ ~_check_for_pace_loss(TheDeck, path, NumPlayers)
          /\ ~_check_for_pace_loss(TheDeck, path, 1)
          /\ last_path' = path
    /\ found_pace_one' = TRUE
    /\ proved_infeasible' = FALSE
    /\ path_idx' = path_idx + 1
    /\ UNCHANGED <<deck, nsuits, options, nswaps, pc, suit_idx, suit_paths,
                   dist_paths, dist_idx, dist_called, result, game_vars,
                   si, test_vars>>

\* PaceZeroPath without the test of line 87: every path that passes the
\* first two filters is kept
PaceZeroPathAnyPace ==
    /\ InLoop
    /\ \E path \in {NextPath} :
          /\ ~_check_for_capacity_loss(TheDeck, path, Capacity)
          /\ ~_check_for_pace_loss(TheDeck, path, NumPlayers)
          /\ dist_paths' = Append(dist_paths, path)
          /\ last_path' = path
    /\ path_idx' = path_idx + 1
    /\ UNCHANGED <<deck, nsuits, options, nswaps, pc, suit_idx, suit_paths,
                   proved_infeasible, found_pace_one, dist_idx, dist_called,
                   result, game_vars,
                   si, test_vars>>

\* check_for_1p_inf, line 91: the path is kept for the distribution check
PaceZeroPath ==
    /\ InLoop
    /\ \E path \in {NextPath} :
          /\ ~_check_for_capacity_loss(TheDeck, path, Capacity)
          /\ ~_check_for_pace_loss(TheDeck, path, NumPlayers)
          /\ _check_for_pace_loss(TheDeck, path, 1)
          /\ dist_paths' = Append(dist_paths, path)
          /\ last_path' = path
    /\ path_idx' = path_idx + 1
    /\ UNCHANGED <<deck, nsuits, options, nswaps, pc, suit_idx, suit_paths,
                   proved_infeasible, found_pace_one, dist_idx, dist_called,
                   result, game_vars,
                   si, test_vars>>

\* Return1p without lines 92-93: the paths collected before the break are
\* kept
Return1pKeepsPaths ==
    /\ pc = "paths"
    /\ found_pace_one \/ path_idx = ProductSize(suit_paths)
    /\ pc' = IF Len(dist_paths) = 0 THEN "done" ELSE "dist"
    /\ result' = IF Len(dist_paths) = 0
                 THEN Pair(proved_infeasible, FALSE)
                 ELSE result
    /\ UNCHANGED <<deck, nsuits, options, nswaps, solver_vars, game_vars,
                   si, test_vars>>

\* check_for_1p_inf returns (lines 92-94) and check_for_infeasibility
\* returns at once when no path is left (lines 64-65)
Return1p ==
    /\ pc = "paths"
    /\ found_pace_one \/ path_idx = ProductSize(suit_paths)
    /\ LET paths == IF found_pace_one THEN <<>> ELSE dist_paths
       IN  /\ dist_paths' = paths
           /\ pc' = IF Len(paths) = 0 THEN "done" ELSE "dist"
           /\ result' = IF Len(paths) = 0
                        THEN Pair(proved_infeasible, FALSE)
                        ELSE result
    /\ UNCHANGED <<deck, nsuits, options, nswaps, suit_idx, suit_paths,
                   path_idx, proved_infeasible, found_pace_one, dist_idx,
                   dist_called, last_path, game_vars,
                   si, test_vars>>

\* The distribution solver on the next path all(...) draws
NextDist == _check_for_dist_loss(TheDeck, dist_paths[dist_idx + 1])

InAll ==
    /\ pc = "dist"
    /\ dist_idx < Len(dist_paths)

\* all(...), line 68: the path is a distribution loss (or the solver
\* raised)
DistLoss ==
    /\ InAll
    /\ \E r \in {NextDist} :
          /\ r.raised \/ r.value
          /\ pc' = IF r.raised THEN "raised" ELSE pc
          /\ result' = IF r.raised THEN RaisedPair ELSE result
    /\ dist_called' = Append(dist_called, dist_paths[dist_idx + 1])
    /\ dist_idx' = dist_idx + 1
    /\ UNCHANGED <<deck, nsuits, options, nswaps, suit_idx, suit_paths,
                   path_idx, proved_infeasible, found_pace_one, dist_paths,
                   last_path, game_vars,
                   si, test_vars>>

\* NoDistLoss as any(...) would go on: the path is passed over
NoDistLossContinues ==
    /\ InAll
    /\ \E r \in {NextDist} : ~r.raised /\ ~r.value
    /\ dist_called' = Append(dist_called, dist_paths[dist_idx + 1])
    /\ dist_idx' = dist_idx + 1
    /\ UNCHANGED <<deck, nsuits, options, nswaps, pc, result, suit_idx,
                   suit_paths, path_idx, proved_infeasible, found_pace_one,
                   dist_paths, last_path, game_vars,
                   si, test_vars>>

\* all(...), line 68: the path is no distribution loss; all() is False
NoDistLoss ==
    /\ InAll
    /\ \E r \in {NextDist} : ~r.raised /\ ~r.value
    /\ dist_called' = Append(dist_called, dist_paths[dist_idx + 1])
    /\ dist_idx' = dist_idx + 1
    /\ pc' = "done"
    /\ result' = Pair(FALSE, TRUE)
    /\ UNCHANGED <<deck, nsuits, options, nswaps, suit_idx, suit_paths,
                   path_idx, proved_infeasible, found_pace_one, dist_paths,
                   last_path, game_vars,
                   si, test_vars>>

\* all(...), line 68: every path was a distribution loss; all() is True
AllDistLoss ==
    /\ pc = "dist"
    /\ dist_idx = Len(dist_paths)
    /\ pc' = "done"
    /\ result' = Pair(TRUE, TRUE)
    /\ UNCHANGED <<deck, nsuits, options, nswaps, solver_vars, game_vars,
                   si, test_vars>>

Next ==
    \/ ShuffleSwap
    \/ Suitify
    \/ CapacityLoss
    \/ PaceLoss
    \/ FoundPaceOne
    \/ PaceZeroPath
    \/ Return1p
    \/ DistLoss
    \/ NoDistLoss
    \/ AllDistLoss

Spec == Init /\ [][Next]_vars

-----------------------------------------------------------------------------
(* The two-player game a verdict speaks about: GameState of                *)
(* hanabi-endgames/game/gamestate.py with unlimited clues, and the final   *)
(* round of the infinite-clue model.  A misplay loses the card as a        *)
(* discard does; only plays of playable cards and discards are moves.      *)

\* One-suit decks of thirteen cards, as create_bespoke_deck builds them
GameDecks ==
    { FromCodes(<<2, 2, 2, 5, 5, 4, 2, 3, 5, 1, 3, 3, 1>>, 1),
      FromCodes(<<1, 2, 3, 4, 5, 1, 1, 2, 2, 3, 3, 4, 4>>, 1) }

GameInit ==
    /\ \E d \in GameDecks : deck = d.deck /\ nsuits = d.nsuits
    /\ options = [hand_capacity |-> DefaultHandCapacity, bdrs |-> {}]
    /\ nswaps = 0
    /\ pc = "deck"
    /\ result = NoResult
    /\ si = _set_protected_attrs
    /\ InitSolver
    /\ InitGame
    /\ InitTest

\* PathFinder.check_for_infeasibility, whole, with si = ShapeIdentifier()
Solve ==
    /\ pc = "deck"
    /\ result' = check_for_infeasibility(TheDeck, options)
    /\ pc' = "solved"
    /\ UNCHANGED <<deck, nsuits, options, nswaps, solver_vars, game_vars,
                   si, test_vars>>

\* _get_starting_hands: each hand is a slice of the deck, reversed
_get_starting_hands(player_count, hand_size) ==
    [p \in 1..player_count |->
        [k \in 1..hand_size |-> (p - 1) * hand_size + hand_size - k]]

\* GameState.__init__
Deal ==
    /\ pc = "solved"
    /\ hands' = _get_starting_hands(NumPlayers, HandSize)
    /\ play_stacks' = [suit \in 1..nsuits |-> <<>>]
    /\ discard_pile' = <<>>
    /\ draw_pile_size' = Len(deck) - NumPlayers * HandSize
    /\ current_player' = 0
    /\ final_turns' = -1
    /\ score' = 0
    /\ pc' = "game"
    /\ UNCHANGED <<deck, nsuits, options, nswaps, result, solver_vars,
                   si, test_vars>>

\* The number of cards on the play stacks
Score == SumSeq([suit \in 1..Len(play_stacks) |-> Len(play_stacks[suit])])

\* A _remove_from_hand that takes the card of the first slot, whatever the
\* order asked for
_remove_from_hand_first_slot(hand, order) == Tail(hand)

\* GameState._remove_from_hand
_remove_from_hand(hand, order) ==
    SelectSeq(hand, LAMBDA o : o # order)

\* GameState._draw_card: the hand of the current player after the draw
_draw_card(hand) ==
    IF draw_pile_size = 0 THEN hand
    ELSE <<Len(deck) - draw_pile_size>> \o hand

\* The final round: once the last card is drawn every player has one more
\* turn
TurnsLeft(size_after) ==
    IF final_turns > 0 THEN final_turns - 1
    ELSE IF size_after = 0 THEN NumPlayers
    ELSE -1

InTurn ==
    /\ pc = "game"
    /\ final_turns # 0

\* implement_action, lines 132-135, and the count of the final round
EndTurn(size_after) ==
    /\ current_player' = (current_player + 1) % NumPlayers
    /\ draw_pile_size' = size_after
    /\ final_turns' = TurnsLeft(size_after)
    /\ UNCHANGED <<deck, nsuits, options, nswaps, pc, result,
                   solver_vars, si, test_vars>>

SizeAfterDraw == IF draw_pile_size = 0 THEN 0 ELSE draw_pile_size - 1

\* implement_action, type "play"
Play ==
    /\ InTurn
    /\ \E i \in 1..Len(hands[current_player + 1]) :
          LET order == hands[current_player + 1][i]
              card == interpret(TheDeck, order)
          IN  /\ Len(play_stacks[card.suit + 1]) = card.rank - 1
              /\ play_stacks' = [play_stacks EXCEPT
                                    ![card.suit + 1] = Append(@, order)]
              /\ hands' = [hands EXCEPT ![current_player + 1] =
                              _draw_card(_remove_from_hand(@, order))]
    /\ score' = score + 1
    /\ UNCHANGED discard_pile
    /\ EndTurn(SizeAfterDraw)

\* implement_action, type "discard"
Discard ==
    /\ InTurn
    /\ \E i \in 1..Len(hands[current_player + 1]) :
          LET order == hands[current_player + 1][i]
          IN  /\ discard_pile' = Append(discard_pile, order)
              /\ hands' = [hands EXCEPT ![current_player + 1] =
                              _draw_card(_remove_from_hand(@, order))]
    /\ UNCHANGED <<play_stacks, score>>
    /\ EndTurn(SizeAfterDraw)

\* implement_action, types "rank" and "color": a clue only passes the turn
Clue ==
    /\ InTurn
    /\ UNCHANGED <<hands, play_stacks, discard_pile, score>>
    /\ EndTurn(draw_pile_size)

GameNext ==
    \/ Solve
    \/ Deal
    \/ Play
    \/ Discard
    \/ Clue

GameSpec == GameInit /\ [][GameNext]_vars

-----------------------------------------------------------------------------
(* The replay of a game: GameState built at turn 0, then implement_action  *)
(* for the actions of the record, whatever they are.  The counters no      *)
(* hand, pile or stack depends on (clue_token_count, strike_count, turn)   *)
(* are left out.                                                           *)

\* The longest record replayed, counted in plays, bombs and discards
MaxMoves == 3

\* Decks of twelve cards, two more than the starting hands take
ReplayDecks ==
    { FromCodes(<<1, 2, 11, 3, 12, 4, 1, 13, 2, 5, 3, 14>>, 2),
      FromCodes(<<1, 2, 3, 4, 5, 1, 1, 2, 2, 3, 3, 4>>, 1) }

\* GameState.__init__ with turn = 0
ReplayInit ==
    /\ \E d \in ReplayDecks : deck = d.deck /\ nsuits = d.nsuits
    /\ options = [hand_capacity |-> DefaultHandCapacity, bdrs |-> {}]
    /\ nswaps = 0
    /\ pc = "replay"
    /\ result = NoResult
    /\ si = _set_protected_attrs
    /\ InitSolver
    /\ InitTest
    /\ hands = _get_starting_hands(NumPlayers, HandSize)
    /\ play_stacks = [suit \in 1..nsuits |-> <<>>]
    /\ discard_pile = <<>>
    /\ draw_pile_size = Len(deck) - NumPlayers * HandSize
    /\ current_player = 0
    /\ final_turns = -1
    /\ score = 0

\* GameState._get_type
_get_type(action) ==
    IF action.type = 3 THEN "rank"
    ELSE IF action.type = 2 THEN "color"
    ELSE IF action.type = 1 THEN "discard"
    ELSE IF action.type = 4 \/ action.type = 5 THEN "vtk"
    ELSE LET card == interpret(TheDeck, action.target)
         IN  IF Len(play_stacks[card.suit + 1]) = card.rank - 1
             THEN "play" ELSE "bomb"

\* The actions a record may hold at this point: a play or a discard of a
\* card of the acting player's hand, a clue to a player, a vote to kill
ReplayActions ==
    [type : {0, 1}, target : {hands[current_player + 1][i] :
                                 i \in 1..Len(hands[current_player + 1])}]
    \cup [type : 2..5, target : 0..(NumPlayers - 1)]

\* GameState.implement_action
ImplementAction ==
    /\ pc = "replay"
    /\ \E action \in ReplayActions :
          LET action_type == _get_type(action)
              moves == action_type \in {"discard", "play", "bomb"}
              card == interpret(TheDeck, action.target)
          IN  /\ moves => Len(discard_pile) + score < MaxMoves
              /\ hands' = IF moves
                          THEN [hands EXCEPT ![current_player + 1] =
                                   _draw_card(_remove_from_hand(
                                                  @, action.target))]
                          ELSE hands
              /\ discard_pile' = IF action_type \in {"discard", "bomb"}
                                 THEN Append(discard_pile, action.target)
                                 ELSE discard_pile
              /\ play_stacks' = IF action_type = "play"
                                THEN [play_stacks EXCEPT ![card.suit + 1] =
                                         Append(@, action.target)]
                                ELSE play_stacks
              /\ score' = IF action_type = "play" THEN score + 1 ELSE score
              /\ draw_pile_size' = IF moves THEN SizeAfterDraw
                                   ELSE draw_pile_size
              /\ current_player' = IF action_type = "vtk" THEN current_player
                                   ELSE (current_player + 1) % NumPlayers
    /\ UNCHANGED <<deck, nsuits, options, nswaps, pc, result, solver_vars,
                   final_turns, si, test_vars>>

ReplayNext == ImplementAction

ReplaySpec == ReplayInit /\ [][ReplayNext]_vars

-----------------------------------------------------------------------------
(* The capacity filter on masks of its own: any boolean list of the        *)
(* deck's length, grown one true position at a time.                       *)

\* Three-suit decks of fifteen cards, every card once
MaskDecks ==
    { FromCodes(<<1, 2, 3, 4, 5, 12, 13, 14, 15, 22, 23, 24, 25, 11, 21>>, 3),
      FromCodes(<<2, 12, 22, 3, 13, 23, 1, 4, 14, 24, 5, 15, 25, 11, 21>>,
                3) }

MaskInit ==
    /\ \E d \in MaskDecks : deck = d.deck /\ nsuits = d.nsuits
    /\ options = [hand_capacity |-> DefaultHandCapacity, bdrs |-> {}]
    /\ nswaps = 0
    /\ pc = "mask"
    /\ result = NoResult
    /\ si = _set_protected_attrs
    /\ InitSolver
    /\ InitGame
    /\ mask = Repeat(FALSE, Len(deck))
    /\ mask_loss = FALSE
    /\ id_cards = <<>>
    /\ id_result = [paths |-> <<>>, raised |-> FALSE]
    /\ variant = [suit_names |-> <<>>, suits |-> <<>>]
    /\ printout = <<>>
    /\ parsed = [deck |-> <<>>, raised |-> FALSE]

\* One more position of the mask is set, and the filter is called on it
SetPosition ==
    /\ pc = "mask"
    /\ \E i \in 1..Len(mask) :
          /\ ~mask[i]
          /\ \E m \in {[mask EXCEPT ![i] = TRUE]} :
                /\ mask' = m
                /\ mask_loss' = _check_for_capacity_loss(TheDeck, m, Capacity)
    /\ UNCHANGED <<deck, nsuits, options, nswaps, pc, result, solver_vars,
                   game_vars, si, id_cards, id_result, variant, printout,
                   parsed>>

MaskNext == SetPosition

MaskSpec == MaskInit /\ [][MaskNext]_vars

------------------------------------------------------------------------------
\* The solver on whole five-suit decks, next to the shuffled seed decks

\* Five-suit decks of 50 cards in which, for every suit, the earliest copy
\* of each rank precedes the earliest copy of the next rank
SortedDecks ==
    { FromCodes(<<31, 11, 31, 32, 12, 11, 31, 1, 1, 2, 13, 21, 41, 42, 22, 33, 42, 3, 14, 34, 43, 4, 43, 21, 22, 11, 44, 1, 13, 14, 23, 4, 34, 15, 41, 2, 32, 24, 5, 45, 21, 44, 3, 41, 35, 25, 12, 24, 33, 23>>, 5),
      FromCodes(<<1, 21, 11, 2, 22, 3, 31, 22, 41, 1, 31, 21, 12, 11, 12, 23, 42, 43, 43, 44, 13, 41, 44, 4, 3, 32, 24, 11, 4, 5, 33, 1, 34, 23, 41, 34, 45, 33, 35, 31, 14, 32, 25, 2, 15, 13, 42, 21, 14, 24>>, 5),
      FromCodes(<<31, 21, 1, 32, 1, 41, 31, 42, 43, 2, 21, 22, 11, 44, 32, 41, 31, 33, 34, 12, 23, 3, 4, 13, 45, 4, 43, 21, 33, 14, 11, 34, 44, 3, 13, 11, 5, 15, 24, 35, 1, 14, 24, 2, 25, 41, 23, 22, 42, 12>>, 5),
      FromCodes(<<21, 11, 22, 22, 12, 1, 31, 21, 12, 32, 31, 41, 1, 2, 31, 42, 3, 33, 34, 3, 23, 13, 42, 43, 35, 23, 43, 44, 11, 2, 34, 4, 14, 33, 1, 21, 5, 15, 41, 41, 4, 11, 24, 24, 14, 45, 32, 25, 13, 44>>, 5) }

\* A five-suit deck is solved as it is; a seed deck may be shuffled first
SortedInit ==
    /\ \/ /\ \E d \in SortedDecks : deck = d.deck /\ nsuits = d.nsuits
          /\ nswaps = MaxSwaps
       \/ /\ \E d \in SeedDecks : deck = d.deck /\ nsuits = d.nsuits
          /\ nswaps = 0
    /\ options \in OptionSets
    /\ pc = "deck"
    /\ result = NoResult
    /\ si = _set_protected_attrs
    /\ InitSolver
    /\ InitGame
    /\ InitTest

SortedSpec == SortedInit /\ [][Next]_vars

------------------------------------------------------------------------------
\* One ShapeIdentifier shared by the calls made for many decks

\* Shuffled No Variant decks: five suits, and in each suit three copies of
\* rank 1, two of ranks 2 to 4 and one of rank 5
ShuffledDecks ==
    { FromCodes(<<41, 3, 31, 23, 1, 22, 24, 31, 22, 42, 12, 11, 13, 34, 21, 12, 45, 5, 34, 4, 44, 31, 1, 35, 44, 43, 3, 43, 1, 42, 4, 41, 21, 33, 13, 32, 14, 33, 32, 25, 41, 21, 23, 15, 2, 11, 14, 11, 24, 2>>, 5),
      FromCodes(<<33, 3, 4, 5, 2, 12, 13, 4, 41, 11, 14, 3, 45, 25, 31, 34, 22, 12, 42, 32, 33, 43, 24, 11, 23, 15, 11, 43, 21, 21, 31, 42, 32, 22, 21, 1, 14, 35, 2, 44, 34, 41, 31, 44, 13, 1, 23, 1, 41, 24>>, 5),
      FromCodes(<<31, 34, 13, 4, 24, 33, 31, 12, 42, 14, 3, 11, 44, 23, 2, 43, 21, 22, 1, 2, 11, 32, 12, 24, 32, 35, 15, 21, 31, 43, 3, 22, 44, 41, 33, 1, 41, 23, 42, 25, 34, 11, 5, 1, 14, 45, 21, 4, 41, 13>>, 5) }

SharedDecks == SeedDecks \cup SortedDecks \cup ShuffledDecks

SharedInit ==
    /\ \E d \in SharedDecks : deck = d.deck /\ nsuits = d.nsuits
    /\ options \in OptionSets
    /\ nswaps = 0
    /\ pc = "shared"
    /\ result = NoResult
    /\ si = _set_protected_attrs
    /\ InitSolver
    /\ InitGame
    /\ InitTest

\* si.identify is called for a suit of the next deck of the iteration
IdentifyCall ==
    /\ pc = "shared"
    /\ \E d \in SharedDecks : \E s \in 1..d.nsuits :
          /\ s <= Len(SuitOrder(d))
          /\ \E cards \in {SuitCards(d, SuitOrder(d)[s])} :
             \E r \in {identify_on(si, options, cards)} :
                /\ deck' = d.deck
                /\ nsuits' = d.nsuits
                /\ si' = r.st
                /\ id_cards' = cards
                /\ id_result' = [paths |-> r.paths, raised |-> r.raised]
    /\ UNCHANGED <<options, nswaps, pc, result, solver_vars, game_vars,
                   mask, mask_loss, variant, printout,
                   parsed>>

SharedNext == IdentifyCall

SharedSpec == SharedInit /\ [][SharedNext]_vars

------------------------------------------------------------------------------
\* The canonical deck string: Deck.__repr__ and Deck.set_deck

\* A Python str is the sequence of its characters; None, where a str may
\* stand, is a sequence no str is equal to
NoneStr == <<"None">>

\* str.lower
lower(str) ==
    LET upper == <<"B", "C", "K", "R", "T", "Y">>
        small == <<"b", "c", "k", "r", "t", "y">>
    IN  [i \in 1..Len(str) |->
            IF \E k \in 1..Len(upper) : upper[k] = str[i]
            THEN small[CHOOSE k \in 1..Len(upper) : upper[k] = str[i]]
            ELSE str[i]]

\* The characters a rank is written with and read from
RankChars == <<"1", "2", "3", "4", "5">>

\* str.split(" ")
RECURSIVE split(_)
split(str) ==
    IF \A i \in 1..Len(str) : str[i] # " " THEN <<str>>
    ELSE LET at == SetMin({i \in 1..Len(str) : str[i] = " "})
         IN  <<SubSeq(str, 1, at - 1)>> \o split(SubSeq(str, at + 1, Len(str)))

\* SUIT_LIST: the Suit objects, with the attributes the deck string reads
SUIT_LIST ==
    << [name |-> <<"R", "e", "d">>, id |-> <<"R">>,
        abbreviation |-> NoneStr, one_of_each |-> FALSE, reversed |-> FALSE],
       [name |-> <<"B", "l", "u", "e">>, id |-> <<"B">>,
        abbreviation |-> NoneStr, one_of_each |-> FALSE, reversed |-> FALSE],
       [name |-> <<"T", "e", "a", "l">>, id |-> <<"T">>,
        abbreviation |-> NoneStr, one_of_each |-> FALSE, reversed |-> FALSE],
       [name |-> <<"B", "l", "a", "c", "k">>, id |-> <<"K">>,
        abbreviation |-> <<"K">>, one_of_each |-> TRUE, reversed |-> FALSE] >>

\* Variant.__init__: the suit names as given, and for each name the Suit
\* find_suit returns for it, the last nine characters of the name cut off
\* when it has "Reversed" in it
Variant(suits) ==
    LET word == <<"R", "e", "v", "e", "r", "s", "e", "d">>
        has(str) == \E i \in 1..(Len(str) - Len(word) + 1) :
                        SubSeq(str, i, i + Len(word) - 1) = word
        cut(str) == IF has(str) THEN SubSeq(str, 1, Len(str) - 9) ELSE str
        find_suit(str) ==
            SUIT_LIST[CHOOSE i \in 1..Len(SUIT_LIST) : SUIT_LIST[i].name = str]
    IN  [suit_names |-> suits,
         suits |-> [i \in 1..Len(suits) |-> find_suit(cut(suits[i]))]]

\* The suit lists of the variants: plain suits, a suit with an
\* abbreviation, a reversed suit
VariantSuits ==
    { << <<"R", "e", "d">>, <<"B", "l", "u", "e">> >>,
      << <<"R", "e", "d">>, <<"B", "l", "u", "e">>, <<"T", "e", "a", "l">> >>,
      << <<"R", "e", "d">>, <<"B", "l", "a", "c", "k">> >>,
      << <<"R", "e", "d">>,
         <<"T", "e", "a", "l", " ", "R", "e", "v", "e", "r", "s", "e", "d">> >> }

\* Deck._init_deck: the cards of every suit, rank by rank; three 1s, two
\* of each middle rank and one 5, one of each for a one_of_each suit, the
\* counts of 1 and 5 exchanged for a suit that is reversed
_init_deck(v) ==
    LET copies(suit, rank) ==
            IF suit.one_of_each THEN 1
            ELSE IF rank = 1 THEN (IF suit.reversed THEN 1 ELSE 3)
            ELSE IF rank = TopRank THEN (IF suit.reversed THEN 3 ELSE 1)
            ELSE 2
        card(k) == [suit |-> (k - 1) \div TopRank,
                    rank |-> ((k - 1) % TopRank) + 1]
    IN  Chain([k \in 1..(Len(v.suits) * TopRank) |->
                  Repeat(card(k),
                         copies(v.suits[card(k).suit + 1], card(k).rank))])

\* Deck.__repr__, lines 109-115: what one card adds to fmt
CardWord(v, card) ==
    LET suit == v.suits[card.suit + 1]
    IN  (IF suit.abbreviation # NoneStr
         THEN lower(suit.abbreviation)
         ELSE lower(suit.id)) \o <<RankChars[card.rank], " ">>

\* Deck.__repr__
repr(v, cards) ==
    LET fmt == Chain([i \in 1..Len(cards) |-> CardWord(v, cards[i])])
    IN  SubSeq(fmt, 1, Len(fmt) - 1)

\* set_deck, lines 133-145: the name of the first suit of the variant the
\* word is the abbreviation, the id or the name of
suit_of_word(v, word) ==
    LET matches(attempt) ==
            \/ /\ attempt.abbreviation # NoneStr
               /\ lower(word) = lower(attempt.abbreviation)
            \/ lower(word) = lower(attempt.id)
            \/ lower(word) = lower(attempt.name)
        found == {i \in 1..Len(v.suits) : matches(v.suits[i])}
    IN  IF found = {} THEN <<"C", "h", "r", "o", "m", "a", "t", "i", "c">>
        ELSE v.suits[SetMin(found)].name

\* set_deck, lines 125-146: the card a word stands for, or the ValueError
\* of suit_names.index for a name that is not in the list
CardOfWord(v, w) ==
    LET digits == {i \in 1..Len(w) :
                      \E r \in 1..Len(RankChars) : w[i] = RankChars[r]}
        at == IF digits = {} THEN 0 ELSE SetMin(digits)
        rank == IF at = 0 THEN 0
                ELSE CHOOSE r \in 1..Len(RankChars) : RankChars[r] = w[at]
        word == IF at = 0 THEN w
                ELSE SubSeq(w, 1, at - 1) \o SubSeq(w, at + 1, Len(w))
        suit == suit_of_word(v, word)
    IN  IF \E k \in 1..Len(v.suit_names) : v.suit_names[k] = suit
        THEN [raised |-> FALSE,
              card |-> [suit |-> (CHOOSE k \in 1..Len(v.suit_names) :
                                     v.suit_names[k] = suit) - 1,
                        rank |-> rank]]
        ELSE [raised |-> TRUE, card |-> NoneVal]

\* Deck.set_deck; no deck is handed back when a word raises
set_deck(v, words) ==
    LET cards == [i \in 1..Len(words) |-> CardOfWord(v, words[i])]
    IN  IF \E i \in 1..Len(words) : cards[i].raised
        THEN [deck |-> <<>>, raised |-> TRUE]
        ELSE [deck |-> [i \in 1..Len(words) |-> cards[i].card],
              raised |-> FALSE]

\* Deck(variant): the cards of _init_deck, not shuffled yet
ReprInit ==
    /\ \E suits \in VariantSuits :
          /\ variant = Variant(suits)
          /\ deck = _init_deck(Variant(suits))
          /\ nsuits = Len(suits)
    /\ options = [hand_capacity |-> DefaultHandCapacity, bdrs |-> {}]
    /\ nswaps = 0
    /\ pc = "deck"
    /\ result = NoResult
    /\ si = _set_protected_attrs
    /\ InitSolver
    /\ InitGame
    /\ mask = <<>>
    /\ mask_loss = FALSE
    /\ id_cards = <<>>
    /\ id_result = [paths |-> <<>>, raised |-> FALSE]
    /\ printout = <<>>
    /\ parsed = [deck |-> <<>>, raised |-> FALSE]

\* repr(deck)
Format ==
    /\ pc = "deck"
    /\ printout' = repr(variant, deck)
    /\ pc' = "printed"
    /\ UNCHANGED <<deck, nsuits, options, nswaps, result, solver_vars,
                   game_vars, si, mask, mask_loss, id_cards, id_result,
                   variant, parsed>>

\* Deck(variant).set_deck(repr(deck).split(" "))
SetDeck ==
    /\ pc = "printed"
    /\ parsed' = set_deck(variant, split(printout))
    /\ pc' = "parsed"
    /\ UNCHANGED <<deck, nsuits, options, nswaps, result, solver_vars,
                   game_vars, si, mask, mask_loss, id_cards, id_result,
                   variant, printout>>

ReprNext ==
    \/ ShuffleSwap
    \/ Format
    \/ SetDeck

ReprSpec == ReprInit /\ [][ReprNext]_vars

------------------------------------------------------------------------------
\* PathFinder.check_for_pace_loss called on a deck

\* The seed decks and a one-suit deck of ten cards
PaceDecks ==
    SeedDecks \cup { FromCodes(<<2, 4, 4, 2, 5, 3, 3, 1, 1, 1>>, 1) }

PaceInit ==
    /\ \E d \in PaceDecks : deck = d.deck /\ nsuits = d.nsuits
    /\ options = [hand_capacity |-> DefaultHandCapacity, bdrs |-> {}]
    /\ nswaps = 0
    /\ pc = "deck"
    /\ result = NoResult
    /\ si = _set_protected_attrs
    /\ InitSolver
    /\ InitGame
    /\ InitTest

\* PathFinder(deck, si, 2, 5).check_for_pace_loss(): mask is the path it
\* built and mask_loss the value it returned
CheckForPaceLoss ==
    /\ pc = "deck"
    /\ \E r \in {check_for_pace_loss(TheDeck)} :
          /\ pc' = IF r.raised THEN "pace_raised" ELSE "pace"
          /\ mask' = r.path
          /\ mask_loss' = r.value
    /\ UNCHANGED <<deck, nsuits, options, nswaps, result, solver_vars,
                   game_vars, si, id_cards, id_result, variant, printout,
                   parsed>>

PaceNext ==
    \/ ShuffleSwap
    \/ CheckForPaceLoss

PaceSpec == PaceInit /\ [][PaceNext]_vars

-----------------------------------------------------------------------------
(* Properties                                                              *)

\* The solve has returned a pair
Returned1 == pc = "done"

\* The three filters on a boolean path of the current deck
CapLoss(path) == _check_for_capacity_loss(TheDeck, path, Capacity)

TeamPaceLoss(path) == _check_for_pace_loss(TheDeck, path, NumPlayers)

SinglePaceLoss(path) == _check_for_pace_loss(TheDeck, path, 1)

\* Element k of the product as a boolean path
PathAt(k) == PathOf(TheDeck, ProductAt(suit_paths, k))

\* A path is rejected: capacity loss, or team-pace loss, or single-hand
\* pace loss together with a distribution loss
Rejected(path) ==
    \/ CapLoss(path)
    \/ TeamPaceLoss(path)
    \/ /\ SinglePaceLoss(path)
       /\ _check_for_dist_loss(TheDeck, path).value

\* A path the loop keeps for the distribution solver
IsPaceZeroPath(path) ==
    /\ ~CapLoss(path)
    /\ ~TeamPaceLoss(path)
    /\ SinglePaceLoss(path)

\* C1: if the verdict is infeasible = true, no play of the game reaches
\* the maximum score
C1_Soundness ==
    (pc = "game" /\ result.infeasible) => score < MaxScore(TheDeck)

\* C2: the returned verdict is infeasible = true exactly if every path of
\* the product is rejected, and it is false once a path passed all filters
C2_Conjunction ==
    Returned1 =>
        /\ result.infeasible <=>
               \A k \in 0..(ProductSize(suit_paths) - 1) : Rejected(PathAt(k))
        /\ found_pace_one => ~result.infeasible

\* A verdict infeasible = true that rests on the distribution solver, on a
\* product of several paths
C2_Witness ==
    /\ Returned1
    /\ result.infeasible
    /\ result.forced
    /\ ProductSize(suit_paths) > 1

\* C3 as stated: the distribution solver is called only on paths that
\* survive capacity, fail the team pace (budget P) and survive the
\* single-hand pace (budget 1)
C3_AsStated ==
    \A i \in 1..Len(dist_called) :
        /\ ~CapLoss(dist_called[i])
        /\ TeamPaceLoss(dist_called[i])
        /\ ~SinglePaceLoss(dist_called[i])

\* C3: the distribution solver is called only on paths that survive
\* capacity, survive the team pace (budget P) and fail the single-hand pace
\* (budget 1)
C3_Invoked ==
    \A i \in 1..Len(dist_called) : IsPaceZeroPath(dist_called[i])

\* The distribution solver has been called
C3_Witness == Len(dist_called) > 0

\* C4: forced_to_pace_zero is true exactly if the distribution solver ran
\* on a path; once a path passed all three filters the collected paths are
\* dropped and the pair is (False, False)
C4_Forced ==
    Returned1 =>
        /\ result.forced <=> Len(dist_called) > 0
        /\ found_pace_one =>
               /\ result = Pair(FALSE, FALSE)
               /\ dist_paths = <<>>
               /\ dist_called = <<>>

\* (False, False) returned after a pace-zero path had been collected
C4_Witness ==
    /\ Returned1
    /\ found_pace_one
    /\ result = Pair(FALSE, FALSE)
    /\ \E k \in 0..(path_idx - 2) : IsPaceZeroPath(PathAt(k))

\* C5: with the ShapeIdentifier as the repository constructs it (no bdrs),
\* the solve of a well-formed deck never raises, and the first element of
\* a returned pair is a boolean
C5_NeverRaises ==
    options.bdrs = {} =>
        /\ pc # "raised"
        /\ Returned1 => (~result.raised /\ result.infeasible \in BOOLEAN)

\* A pair returned by the distribution solver for a deck every path of
\* which needed it
C5_Witness ==
    /\ options.bdrs = {}
    /\ Returned1
    /\ result.forced
    /\ Len(dist_called) > 1

\* The SuitPaths identify has emitted for the s-th suit, each with its suit
\* and the concern set of the suit
EmittedOf(s) ==
    LET suit == SuitOrder(TheDeck)[s]
        concern == hand_dist(options, SuitCards(TheDeck, suit))
    IN  {[suit |-> suit, concern |-> concern, path |-> suit_paths[s][j]] :
            j \in 1..Len(suit_paths[s])}

\* The SuitPaths identify has emitted so far
Emitted == UNION {EmittedOf(s) : s \in 1..Len(suit_paths)}

\* The deck positions of the copies of a card
CopiesOf(suit, rank) ==
    {i - 1 : i \in {j \in 1..Len(deck) :
                      deck[j].suit = suit /\ deck[j].rank = rank}}

\* t = max(p_1..p_{r-1}), the position at which rank r becomes playable
Threshold(path, r) ==
    IF r = 1 THEN -1 ELSE SetMax({path[i] : i \in 1..(r - 1)})

\* The copies of rank r after the threshold
CopiesAfter(e, r) ==
    {c \in CopiesOf(e.suit, r) : c > Threshold(e.path, r)}

\* The copies of rank r before the threshold
CopiesBefore(e, r) ==
    {c \in CopiesOf(e.suit, r) : c < Threshold(e.path, r)}

\* Rule 1 for rank r of an emitted path: p_r is not later than the
\* earliest copy after t
Rule1(e, r) ==
    CopiesAfter(e, r) = {} \/ e.path[r] <= SetMin(CopiesAfter(e, r))

\* Rule 2 for rank r of an emitted path: if p_r lies before t, no other
\* copy lies strictly between p_r and t
Rule2(e, r) ==
    e.path[r] < Threshold(e.path, r) =>
        ~\E c \in CopiesBefore(e, r) : e.path[r] < c

\* The ranks identify branches over every copy of, or skips the first copy
\* of: the concern set of the suit and the bdrs
Exempt(e, r) ==
    \/ InSeq(r, e.concern)
    \/ r \in options.bdrs

C8_SuitPath ==
    \A e \in Emitted :
        /\ Len(e.path) = TopRank
        /\ \A i \in Ranks :
              /\ e.path[i] \in 0..(Len(deck) - 1)
              /\ deck[e.path[i] + 1] = [suit |-> e.suit, rank |-> i]

\* A suit for which identify backtracked more than once
C8_Witness == \E s \in 1..Len(suit_paths) : Len(suit_paths[s]) >= 3

\* C9: the boolean path built from an element of the product has exactly
\* S*R true positions, exactly one for every rank of every suit
C9_DeckPath ==
    last_path # <<>> =>
        /\ Cardinality({i \in 1..Len(last_path) : last_path[i]})
               = MaxScore(TheDeck)
        /\ \A suit \in 0..(nsuits - 1) : \A rank \in Ranks :
               Cardinality({i \in 1..Len(last_path) :
                              /\ last_path[i]
                              /\ deck[i] = [suit |-> suit, rank |-> rank]})
                   = 1

\* A path of a three-suit deck, not the first of its product
C9_Witness ==
    /\ last_path # <<>>
    /\ nsuits = 3
    /\ path_idx > 1

\* C10: a path that is a pace loss with budget P is a pace loss with
\* budget 1, or is kept for the distribution solver
C10_Weaker ==
    last_path # <<>> =>
        (TeamPaceLoss(last_path) =>
            SinglePaceLoss(last_path) \/ InSeq(last_path, dist_paths))

\* The loop has passed over a path for its team-pace loss
C10_Witness ==
    /\ last_path # <<>>
    /\ ~CapLoss(last_path)
    /\ TeamPaceLoss(last_path)

\* The position by which mask' exceeds mask holds a card whose predecessor
\* (same suit, one rank lower) is at no true position of mask': the card
\* is held and never plays
AddedCardIsHeld ==
    \E i \in 1..Len(mask) :
        /\ ~mask[i]
        /\ mask'[i]
        /\ deck[i].rank >= 2
        /\ ~\E j \in 1..Len(mask) :
               /\ mask'[j]
               /\ deck[j] = [suit |-> deck[i].suit, rank |-> deck[i].rank - 1]

\* C11 as stated: a mask on which the capacity filter reports a loss still
\* does with any one further position set
C11_AsStated == [][(pc = "mask" /\ mask_loss) => mask_loss']_vars

\* C11: a mask on which the capacity filter reports a loss still does with
\* one further position set, when the card at that position is one the
\* mask never plays (its predecessor is at no true position)
C11_HeldCard ==
    [][(pc = "mask" /\ mask_loss /\ AddedCardIsHeld) => mask_loss']_vars

\* A losing mask with a true position whose card never plays and without
\* which the mask is a loss as well
C11_Witness ==
    /\ pc = "mask"
    /\ mask_loss
    /\ \E i \in 1..Len(mask) :
          /\ mask[i]
          /\ deck[i].rank >= 2
          /\ ~\E j \in 1..Len(mask) :
                 /\ mask[j]
                 /\ deck[j] = [suit |-> deck[i].suit,
                               rank |-> deck[i].rank - 1]
          /\ _check_for_capacity_loss(TheDeck, [mask EXCEPT ![i] = FALSE],
                                      Capacity)

\* The card at the last position of the deck
LastCard == deck[Len(deck)]

\* C12 as stated: a deck whose last position holds a card of a rank other
\* than 5 is proved infeasible
C12_AsStated ==
    (Returned1 /\ LastCard.rank # TopRank) => result.infeasible

\* C12: a deck whose last position holds the only copy of a card of a rank
\* other than 5 is proved infeasible
C12_OnlyCopy ==
    (/\ Returned1
     /\ LastCard.rank # TopRank
     /\ CopiesOf(LastCard.suit, LastCard.rank) = {Len(deck) - 1})
        => result.infeasible

\* A solve has returned for a deck that ends in the only copy of a card
\* below rank 5, after the loop looked at a path that is no capacity loss
C12_Witness ==
    /\ Returned1
    /\ LastCard.rank # TopRank
    /\ CopiesOf(LastCard.suit, LastCard.rank) = {Len(deck) - 1}
    /\ last_path # <<>>
    /\ ~CapLoss(last_path)
    /\ result = Pair(TRUE, FALSE)

\* The earliest copy of every rank precedes the earliest copy of the next
\* rank, in every suit
RanksInOrder ==
    \A s \in 0..(nsuits - 1) : \A r \in 1..(TopRank - 1) :
        /\ CopiesOf(s, r) # {}
        /\ CopiesOf(s, r + 1) # {}
        /\ SetMin(CopiesOf(s, r)) < SetMin(CopiesOf(s, r + 1))

FullDeck == nsuits = 5 /\ Len(deck) = 50

\* C13: with the ShapeIdentifier as the repository constructs it (no
\* bdrs), a five-suit deck of 50 cards whose ranks come in order in every
\* suit is returned as (False, False)
C13_InOrder ==
    (Returned1 /\ FullDeck /\ RanksInOrder /\ options.bdrs = {})
        => result = Pair(FALSE, FALSE)

\* The solve of such a deck has returned, after the one path it has was
\* found to have pace one
C13_Witness ==
    /\ Returned1
    /\ FullDeck
    /\ RanksInOrder
    /\ options.bdrs = {}
    /\ found_pace_one
    /\ ProductSize(suit_paths) = 1
    /\ result = Pair(FALSE, FALSE)

\* The only rank-5 card of its suit is the first card of the deck
FiveOnTop ==
    /\ deck[1].rank = TopRank
    /\ CopiesOf(deck[1].suit, TopRank) = {0}

\* C14 as stated: a deck with a 5 at position 0 is proved infeasible
C14_AsStated == (Returned1 /\ FiveOnTop) => result.infeasible

\* C14: on every path of a deck with a 5 at position 0 that 5 is played,
\* and it is held from the first draw on: the walk of the path reaches a
\* hand of one card, the card is not trashed
C14_Held ==
    (FiveOnTop /\ last_path # <<>>) =>
        /\ last_path[1]
        /\ _check_for_capacity_loss(TheDeck, last_path, 1)

\* A deck with a 5 at position 0 was returned as not proved infeasible,
\* after a path that plays the 5 and is no capacity loss
C14_Witness ==
    /\ Returned1
    /\ FiveOnTop
    /\ ~result.infeasible
    /\ last_path # <<>>
    /\ last_path[1]
    /\ ~CapLoss(last_path)

\* The suit of the cards the shared ShapeIdentifier was last given
LastSuit == SuitOrder(TheDeck)[suit_idx]

\* C15 as stated: the lists of rank 1 and of rank R hold the earliest copy
\* only, and every emitted SuitPath uses the earliest copy of both
C15_AsStated ==
    /\ (suit_idx > 0 /\ pc # "raised") =>
          /\ si.locations[1] = <<SetMin(CopiesOf(LastSuit, 1))>>
          /\ si.locations[TopRank] = <<SetMin(CopiesOf(LastSuit, TopRank))>>
    /\ \A e \in Emitted :
          /\ e.path[1] = SetMin(CopiesOf(e.suit, 1))
          /\ e.path[TopRank] = SetMin(CopiesOf(e.suit, TopRank))

\* C15: the list of rank 1 holds the earliest copy only and every emitted
\* SuitPath uses it, whatever the concern set; a SuitPath uses the
\* earliest copy of rank R when the suit has one copy of it
C15_RankOne ==
    /\ (suit_idx > 0 /\ pc # "raised") =>
          si.locations[1] = <<SetMin(CopiesOf(LastSuit, 1))>>
    /\ \A e \in Emitted :
          /\ e.path[1] = SetMin(CopiesOf(e.suit, 1))
          /\ Cardinality(CopiesOf(e.suit, TopRank)) = 1 =>
                e.path[TopRank] = SetMin(CopiesOf(e.suit, TopRank))

\* A SuitPath was emitted for a suit whose three copies of rank 1 lie in
\* the starting hands, with rank 1 in the concern set
C15_Witness ==
    \E e \in Emitted :
        /\ \E k \in 1..Len(e.concern) : e.concern[k] = 1
        /\ Cardinality(CopiesOf(e.suit, 1)) = 3
        /\ \A p \in CopiesOf(e.suit, 1) : p < Capacity
        /\ e.path[1] = SetMin(CopiesOf(e.suit, 1))

\* What a ShapeIdentifier made for the call alone returns for the cards
FreshResult ==
    LET r == identify(options, id_cards)
    IN  [paths |-> r.paths, raised |-> r.raised]

\* C16: whatever calls the shared ShapeIdentifier has served before, a call
\* returns the SuitPaths a fresh instance with the same options returns
C16_Reset == (pc = "shared" /\ id_cards # <<>>) => id_result = FreshResult

\* The latest call returned SuitPaths on an instance whose four scratch
\* attributes and sh_ranks all differ from the state the call has left
C16_Witness ==
    /\ pc = "shared"
    /\ id_cards # <<>>
    /\ ~id_result.raised
    /\ Len(id_result.paths) > 1
    /\ \E d \in SharedDecks : \E s \in 1..Len(SuitOrder(d)) :
          LET before == identify(options, SuitCards(d, SuitOrder(d)[s])).st
          IN  /\ before.locations # si.locations
              /\ before.playable # si.playable
              /\ before.sh_ranks # si.sh_ranks
              /\ identify_on(before, options, id_cards).st = si

\* C17 as stated: set_deck on the words of repr(deck) builds a deck with
\* the same (suit index, rank) pairs
C17_RoundTrip ==
    pc = "parsed" => (~parsed.raised /\ parsed.deck = deck)

\* Steps one to three of _solve_breakpoint for a path, as the properties
\* read them: the locals, and whether the path goes on to step four
StepsOneToThree(d, path) ==
    LET bp == _get_breakpoint_connectors(d, path,
                                         _get_pace_breakpoints(d, path, 0))
        keys == DOMAIN bp.locs_to_entries
        first == SetMin(keys)
        stacks0 == bp.locs_to_stacks[first]
        stacksf == bp.locs_to_stacks[SetMax(keys)]
        raw1 == PathCards(d, path, 0, 5)
        raw2 == PathCards(d, path, 5, 10)
        hand1 == UnplayedOf(raw1, stacks0)
        hand2 == UnplayedOf(raw2, stacks0)
        pace0 == PathCards(d, path, first, DeckLen(d))
        unique == IsUnique(stacksf)
        valid_assigns == ValidAssigns(d, stacksf, hand1, hand2)
        suit == valid_assigns[1][1][1]
        raised == \/ bp.raised
                  \/ keys = {}
                  \/ stacks0 = <<>> /\ (raw1 # <<>> \/ raw2 # <<>>)
    IN  IF raised THEN [raised |-> TRUE]
        ELSE [raised |-> FALSE, first |-> first, stacks0 |-> stacks0,
              stacksf |-> stacksf, unique |-> unique,
              hand1 |-> hand1, hand2 |-> hand2, pace0 |-> pace0,
              valid_assigns |-> valid_assigns,
              step_four |->
                  /\ Len(valid_assigns) # 0
                  /\ ~(unique /\ _assign_helper(<<<<suit, 3>>, <<suit, 4>>>>,
                                                hand1, hand2, FALSE))
                  /\ ~(unique /\ _assign_helper(<<<<suit, 3>>, <<suit, 5>>>>,
                                                hand1, hand2, TRUE))
                  /\ ~(~unique /\ \E a \in 1..Len(valid_assigns) :
                          /\ ~InSeq(valid_assigns[a][1], pace0)
                          /\ ~InSeq(valid_assigns[a][2], pace0))]

\* Step four for a path, if the path goes on to it: the stacks of the
\* first breakpoint and what the step makes of turns_playable
StepFour(path) ==
    UNION {
        {[stacks0 |-> s.stacks0, e |-> e] :
            e \in IF s.raised THEN {}
                  ELSE IF ~s.step_four THEN {}
                  ELSE {TurnsPlayable(TheDeck, path, s.first, s.stacks0)}} :
        s \in {StepsOneToThree(TheDeck, path)}}

\* Step four for the paths the distribution solver was called on
Timed == UNION {StepFour(dist_called[k]) : k \in 1..Len(dist_called)}

\* The card with the given index is unplayed at the first breakpoint
UnplayedAtL0(stacks0, index) ==
    ((index - 1) % 5) + 1 > stacks0[((index - 1) \div 5) + 1]

\* C18: for every path that reaches step four, the step does not raise,
\* every card unplayed at the first breakpoint has exactly two recorded
\* turns a <= b, and every played card has none
C18_Intervals ==
    \A t \in Timed :
        /\ ~t.e.raised
        /\ \A index \in 1..MaxScore(TheDeck) :
              LET entry == t.e.turns_playable[index]
              IN  IF UnplayedAtL0(t.stacks0, index)
                  THEN /\ ~entry.isnone
                       /\ Len(entry.turns) = 2
                       /\ entry.turns[1] <= entry.turns[2]
                  ELSE entry.isnone

\* A path went through step four with a card that has two different
\* turns, and with a card already played
C18_Witness ==
    \E t \in Timed :
        /\ ~t.e.raised
        /\ \E index \in 1..MaxScore(TheDeck) :
              /\ UnplayedAtL0(t.stacks0, index)
              /\ Len(t.e.turns_playable[index].turns) = 2
              /\ t.e.turns_playable[index].turns[1]
                    < t.e.turns_playable[index].turns[2]
        /\ \E index \in 1..MaxScore(TheDeck) :
              /\ ~UnplayedAtL0(t.stacks0, index)
              /\ t.e.turns_playable[index].isnone

\* The path plays both cards out of the same starting hand, the first
\* five or the next five cards of the deck
SameStartingHand(d, path, a, b) ==
    \E lo \in {0, HandSize} :
        /\ \E i \in lo..(lo + HandSize - 1) :
              i < DeckLen(d) /\ path[i + 1] /\ Tup(interpret(d, i)) = a
        /\ \E j \in lo..(lo + HandSize - 1) :
              j < DeckLen(d) /\ path[j + 1] /\ Tup(interpret(d, j)) = b

\* The 5+5 endings of two suits below rank 5
FivesEndings(stacksf) ==
    {<<<<i, 5>>, <<j, 5>>>> :
        i \in {s \in 0..(Len(stacksf) - 1) : stacksf[s + 1] < 5},
        j \in {s \in 0..(Len(stacksf) - 1) : stacksf[s + 1] < 5}}
    \ {<<<<i, 5>>, <<i, 5>>>> : i \in 0..(Len(stacksf) - 1)}

\* The 4+5 endings of a suit below rank 4
FourFiveEndings(stacksf) ==
    {<<<<i, 4>>, <<i, 5>>>> :
        i \in {s \in 0..(Len(stacksf) - 1) : stacksf[s + 1] < 4}}

\* The endings whose two cards are not in the same starting hand
OpenEndings(d, path, stacksf) ==
    {t \in FivesEndings(stacksf) \cup FourFiveEndings(stacksf) :
        ~SameStartingHand(d, path, t[1], t[2])}

\* C19: for every path handed to the distribution solver, valid_assigns
\* holds exactly the 5+5 endings of two suits below 5 and the 4+5 endings
\* of a suit below 4 at the last breakpoint whose two cards are not in the
\* same starting hand, and the path is infeasible when there is none
C19_Endings ==
    \A k \in 1..Len(dist_called) :
        \A s \in {StepsOneToThree(TheDeck, dist_called[k])} :
            ~s.raised =>
                /\ {s.valid_assigns[a] : a \in 1..Len(s.valid_assigns)}
                      = OpenEndings(TheDeck, dist_called[k], s.stacksf)
                /\ OpenEndings(TheDeck, dist_called[k], s.stacksf) = {}
                      => _check_for_dist_loss(TheDeck, dist_called[k])
                            = Verdict(TRUE)

\* A path with no open ending was declared infeasible, and another path
\* of the same deck has a blocked 5+5 ending and an open 4+5 ending
C19_Witness ==
    /\ \E k \in 1..Len(dist_called) :
          \E s \in {StepsOneToThree(TheDeck, dist_called[k])} :
              /\ ~s.raised
              /\ OpenEndings(TheDeck, dist_called[k], s.stacksf) = {}
              /\ _check_for_dist_loss(TheDeck, dist_called[k]) = Verdict(TRUE)
    /\ \E k \in 1..Len(dist_called) :
          \E s \in {StepsOneToThree(TheDeck, dist_called[k])} :
              /\ ~s.raised
              /\ \E t \in FivesEndings(s.stacksf) :
                    t \notin OpenEndings(TheDeck, dist_called[k], s.stacksf)
              /\ \E t \in FourFiveEndings(s.stacksf) :
                    t \in OpenEndings(TheDeck, dist_called[k], s.stacksf)

\* The suits the stacks of the last breakpoint leave below rank 5
SuitsBelowTop(stacksf) ==
    {u \in 0..(Len(stacksf) - 1) : stacksf[u + 1] < TopRank}

\* C20: a path whose last breakpoint leaves exactly one suit below rank
\* 5, and which plays the 3 and the 4 of that suit out of the same
\* starting hand, is declared infeasible by the distribution solver
C20_ThreeFour ==
    \A k \in 1..Len(dist_called) :
        \A s \in {StepsOneToThree(TheDeck, dist_called[k])} :
            (/\ ~s.raised
             /\ Cardinality(SuitsBelowTop(s.stacksf)) = 1
             /\ \A u \in SuitsBelowTop(s.stacksf) :
                   SameStartingHand(TheDeck, dist_called[k],
                                    <<u, 3>>, <<u, 4>>))
            => _check_for_dist_loss(TheDeck, dist_called[k]) = Verdict(TRUE)

\* Such a path was given to the distribution solver with an ending left
\* open, so that the check on the 3 and the 4 is what rejects it
C20_Witness ==
    \E k \in 1..Len(dist_called) :
        \E s \in {StepsOneToThree(TheDeck, dist_called[k])} :
            /\ ~s.raised
            /\ Cardinality(SuitsBelowTop(s.stacksf)) = 1
            /\ \A u \in SuitsBelowTop(s.stacksf) :
                  SameStartingHand(TheDeck, dist_called[k],
                                   <<u, 3>>, <<u, 4>>)
            /\ Len(s.valid_assigns) > 0
            /\ _check_for_dist_loss(TheDeck, dist_called[k]) = Verdict(TRUE)

\* The path plays the two cards out of different starting hands
SplitStartingHands(d, path, a, b) ==
    \E lo \in {0, HandSize} :
        /\ \E i \in lo..(lo + HandSize - 1) :
              i < DeckLen(d) /\ path[i + 1] /\ Tup(interpret(d, i)) = a
        /\ \E j \in (HandSize - lo)..(2 * HandSize - lo - 1) :
              j < DeckLen(d) /\ path[j + 1] /\ Tup(interpret(d, j)) = b

\* C21 as stated: a unique path that plays the 3 and the 5 of the
\* unfinished suit out of the same starting hand is declared infeasible
C21_AsStated ==
    \A k \in 1..Len(dist_called) :
        \A s \in {StepsOneToThree(TheDeck, dist_called[k])} :
            (/\ ~s.raised
             /\ Cardinality(SuitsBelowTop(s.stacksf)) = 1
             /\ \A u \in SuitsBelowTop(s.stacksf) :
                   SameStartingHand(TheDeck, dist_called[k],
                                    <<u, 3>>, <<u, 5>>))
            => _check_for_dist_loss(TheDeck, dist_called[k]) = Verdict(TRUE)

\* C21: a unique path that plays the 3 and the 5 of the unfinished suit
\* out of different starting hands is declared infeasible
C21_SameHolder ==
    \A k \in 1..Len(dist_called) :
        \A s \in {StepsOneToThree(TheDeck, dist_called[k])} :
            (/\ ~s.raised
             /\ Cardinality(SuitsBelowTop(s.stacksf)) = 1
             /\ \A u \in SuitsBelowTop(s.stacksf) :
                   SplitStartingHands(TheDeck, dist_called[k],
                                      <<u, 3>>, <<u, 5>>))
            => _check_for_dist_loss(TheDeck, dist_called[k]) = Verdict(TRUE)

\* Such a path, with an ending left open and the 3 and the 4 not in one
\* starting hand, so that the check on the 3 and the 5 is what rejects it
C21_Witness ==
    \E k \in 1..Len(dist_called) :
        \E s \in {StepsOneToThree(TheDeck, dist_called[k])} :
            /\ ~s.raised
            /\ Cardinality(SuitsBelowTop(s.stacksf)) = 1
            /\ \A u \in SuitsBelowTop(s.stacksf) :
                  /\ SplitStartingHands(TheDeck, dist_called[k],
                                        <<u, 3>>, <<u, 5>>)
                  /\ ~SameStartingHand(TheDeck, dist_called[k],
                                       <<u, 3>>, <<u, 4>>)
            /\ Len(s.valid_assigns) > 0
            /\ _check_for_dist_loss(TheDeck, dist_called[k]) = Verdict(TRUE)

\* Step five for given locals of steps one to three and turns_playable:
\* the successor lists, the card at L0 and the connectors
StepFiveOf(path, s, e) ==
    {[s |-> s, successors |-> g.successors,
      start |-> CardIndex(interpret(TheDeck, s.first).suit,
                          interpret(TheDeck, s.first).rank),
      connectors |->
          connect_loop(TheDeck, path, g.successors, s.first,
              [k \in 0..MaxScore(TheDeck) |->
                  k = CardIndex(interpret(TheDeck, s.first).suit,
                                interpret(TheDeck, s.first).rank)])] :
        g \in IF e.raised THEN {}
              ELSE {links_loop(TheDeck, path, e.turns_playable, s.first,
                        [precursors |->
                             [k \in 0..MaxScore(TheDeck) |-> <<>>],
                         successors |->
                             [k \in 0..MaxScore(TheDeck) |-> <<>>]])}}

\* Step five for a path, if the path gets there
StepFive(path) ==
    UNION {
        IF s.raised THEN {}
        ELSE IF ~s.step_four THEN {}
        ELSE UNION {StepFiveOf(path, s, e) :
                       e \in {TurnsPlayable(TheDeck, path, s.first,
                                            s.stacks0)}} :
        s \in {StepsOneToThree(TheDeck, path)}}

\* The card indices the successor lists lead to from the given ones
RECURSIVE ReachFrom(_, _)
ReachFrom(successors, seen) ==
    LET more == seen \cup UNION {{successors[u][i] :
                                     i \in 1..Len(successors[u])} :
                                 u \in seen}
    IN  IF more = seen THEN seen ELSE ReachFrom(successors, more)

\* end, as step five computes it from the connectors
EndOf(t) ==
    \E a \in 1..Len(t.s.valid_assigns) : \E i \in 1..2 :
        t.connectors[CardIndex(t.s.valid_assigns[a][i][1],
                               t.s.valid_assigns[a][i][2])]

\* Some valid ending has both of its cards (each), or one of them, among
\* the cards the successor lists lead to from the card at L0
EndingReached(t, each) ==
    \E a \in 1..Len(t.s.valid_assigns) :
        LET hit(i) == CardIndex(t.s.valid_assigns[a][i][1],
                                t.s.valid_assigns[a][i][2])
                        \in ReachFrom(t.successors, {t.start})
        IN  IF each THEN hit(1) /\ hit(2) ELSE hit(1) \/ hit(2)

\* The steps five of the paths the distribution solver was called on
Connected == UNION {{[t |-> t, path |-> dist_called[k]] : t \in StepFive(dist_called[k])} : k \in 1..Len(dist_called)}

\* C22 as stated: an ending counts as reachable exactly if the successor
\* graph leads from the card at L0 to each of its two cards
C22_AsStated ==
    \A c \in Connected : EndOf(c.t) <=> EndingReached(c.t, TRUE)

\* C22: an ending counts as reachable exactly if the successor graph
\* leads from the card at L0 to at least one of its two cards, and a
\* path that is not unique is declared infeasible in step five only if no
\* ending is reachable so, degrees_of_freedom is 0 and a hand is empty
C22_EitherCard ==
    \A c \in Connected :
        /\ EndOf(c.t) <=> EndingReached(c.t, FALSE)
        /\ (/\ ~c.t.s.unique
            /\ _check_for_dist_loss(TheDeck, c.path) = Verdict(TRUE))
           => /\ ~EndingReached(c.t, FALSE)
              /\ MaxScore(TheDeck) - SumSeq(c.t.s.stacks0)
                   - (Len(c.t.s.hand1) + Len(c.t.s.hand2)
                      + Len(c.t.s.pace0)) = 0
              /\ (c.t.s.hand1 = <<>> \/ c.t.s.hand2 = <<>>)

\* One path took the dead-end verdict, and another path of the deck has
\* an ending that counts as reachable with only one of its cards reached
C22_Witness ==
    /\ \E c \in Connected :
          /\ ~c.t.s.unique
          /\ ~EndingReached(c.t, FALSE)
          /\ _check_for_dist_loss(TheDeck, c.path) = Verdict(TRUE)
    /\ \E c \in Connected :
          /\ EndOf(c.t)
          /\ EndingReached(c.t, FALSE)
          /\ ~EndingReached(c.t, TRUE)

\* The path plays the card from a position before the given location
PlayedBefore(d, path, card, location) ==
    \E i \in 0..(location - 1) : path[i + 1] /\ Tup(interpret(d, i)) = card

\* Some open ending has both of its cards before the first breakpoint
EarlyEnding(d, path, s) ==
    \E t \in OpenEndings(d, path, s.stacksf) :
        /\ PlayedBefore(d, path, t[1], s.first)
        /\ PlayedBefore(d, path, t[2], s.first)

\* C23: a path that is not unique and has a valid ending with both cards
\* before L0 is returned not infeasible without the timing step; a unique
\* path goes on to the timing step unless it is declared infeasible
C23_Shortcut ==
    \A k \in 1..Len(dist_called) :
        \A s \in {StepsOneToThree(TheDeck, dist_called[k])} :
            ~s.raised =>
                /\ (~s.unique /\ EarlyEnding(TheDeck, dist_called[k], s))
                      => /\ ~s.step_four
                         /\ _check_for_dist_loss(TheDeck, dist_called[k])
                               = Verdict(FALSE)
                /\ (s.unique /\ ~s.step_four)
                      => _check_for_dist_loss(TheDeck, dist_called[k])
                            = Verdict(TRUE)

\* A path that is not unique took the shortcut
TookShortcut ==
    \E k \in 1..Len(dist_called) :
        \E s \in {StepsOneToThree(TheDeck, dist_called[k])} :
            /\ ~s.raised
            /\ ~s.unique
            /\ EarlyEnding(TheDeck, dist_called[k], s)
            /\ ~s.step_four
            /\ _check_for_dist_loss(TheDeck, dist_called[k]) = Verdict(FALSE)

\* A unique path with such an ending went on to the timing step
UniqueGoesOn ==
    \E k \in 1..Len(dist_called) :
        \E s \in {StepsOneToThree(TheDeck, dist_called[k])} :
            /\ ~s.raised
            /\ s.unique
            /\ EarlyEnding(TheDeck, dist_called[k], s)
            /\ s.step_four

\* The distribution solver was called and the shortcut was taken
C23_Witness == dist_called # <<>> /\ TookShortcut

\* _locations as get_shape sets it for the s-th suit
LocationsOf(s) ==
    get_shape(options, SuitCards(TheDeck, SuitOrder(TheDeck)[s])).locations

\* The ranks of a suit with two copies or more at positions below
\* hand_capacity
TwoInStartingHands(suit) ==
    {r \in Ranks :
        Cardinality({c \in CopiesOf(suit, r) : c < options.hand_capacity})
            >= 2}

\* C24: with hand_capacity set, the concern set of a suit is the set of
\* ranks with at least two copies below hand_capacity; and for every
\* emitted SuitPath, concern rank r and copy in the location list of r,
\* a SuitPath with the same ranks below r and that copy for r is emitted
C24_Concerns ==
    \A s \in 1..Len(suit_paths) :
        \A locs \in {LocationsOf(s)} :
        \A emitted \in {EmittedOf(s)} :
        \A e \in emitted :
            /\ options.hand_capacity # NoneVal
                  => {r \in Ranks : InSeq(r, e.concern)}
                        = TwoInStartingHands(e.suit)
            /\ \A r \in Ranks : InSeq(r, e.concern) =>
                  \A i \in 1..Len(locs[r]) :
                      \E q \in emitted :
                          /\ Take(q.path, r - 1) = Take(e.path, r - 1)
                          /\ q.path[r] = locs[r][i]

\* A suit with a concern rank that has two locations, and two emitted
\* SuitPaths that differ at that rank only from there on
C24_Witness ==
    /\ options.hand_capacity # NoneVal
    /\ \E s \in 1..Len(suit_paths) :
          \E e \in EmittedOf(s), q \in EmittedOf(s), r \in Ranks :
              /\ InSeq(r, e.concern)
              /\ r \in TwoInStartingHands(e.suit)
              /\ Len(LocationsOf(s)[r]) >= 2
              /\ Take(q.path, r - 1) = Take(e.path, r - 1)
              /\ q.path[r] # e.path[r]
    /\ \E s \in 1..Len(suit_paths) :
          \E e \in EmittedOf(s), r \in Ranks :
              /\ ~InSeq(r, e.concern)
              /\ Cardinality(CopiesOf(e.suit, r)) >= 2

\* The latest-turn simulation of one chosen suit for a path that gets to
\* step four, from the hand and the stacks of the first breakpoint
LatestRuns(path) ==
    UNION {
        IF s.raised THEN {}
        ELSE IF ~s.step_four THEN {}
        ELSE {[first |-> s.first, stacks0 |-> s.stacks0,
               chosen_suit |-> chosen_suit,
               run |-> latest_loop(TheDeck, path, chosen_suit, s.first + 1,
                          [hand |-> RecoverHand(TheDeck, path, s.first,
                                                s.stacks0),
                           stacks |-> s.stacks0,
                           turns_playable |-> InitTurns(TheDeck, s.stacks0),
                           raised |-> FALSE])] :
                 chosen_suit \in 0..(nsuits - 1)} :
        s \in {StepsOneToThree(TheDeck, path)}}

\* C25: for every path that gets to the timing step and every chosen
\* suit, the latest-turn simulation raises nothing, plays a card of its
\* hand every turn from L0+1 to N+1, and ends with every stack at 5 and
\* the hand empty
C25_NeverStuck ==
    \A k \in 1..Len(dist_called) :
        \A t \in LatestRuns(dist_called[k]) :
            /\ ~t.run.raised
            /\ t.run.stacks = [i \in 1..nsuits |-> TopRank]
            /\ t.run.hand = {}
            /\ Len(deck) + 1 - t.first = MaxScore(TheDeck) - SumSeq(t.stacks0)

\* A latest-turn simulation over three turns or more of a deck of two
\* suits, with the chosen suit not the first to play
C25_Witness ==
    \E k \in 1..Len(dist_called) :
        \E t \in LatestRuns(dist_called[k]) :
            /\ nsuits >= 2
            /\ ~t.run.raised
            /\ Len(deck) + 1 - t.first >= 3
            /\ t.run.stacks = [i \in 1..nsuits |-> TopRank]
            /\ \E i \in 1..nsuits : i # t.chosen_suit + 1
                                      /\ t.stacks0[i] < TopRank

\* The breakpoints of a path and what _get_breakpoint_connectors records
\* for them
BreakpointsOf(path) ==
    {[locations |-> locations,
      bp |-> _get_breakpoint_connectors(TheDeck, path, locations)] :
        locations \in {_get_pace_breakpoints(TheDeck, path, 0)}}

\* C26: every path handed to the distribution solver has a breakpoint,
\* every breakpoint is a position of the deck that the path uses, and a
\* tuple of one stack per suit is recorded for every breakpoint
C26_Breakpoints ==
    \A k \in 1..Len(dist_called) :
        \A b \in BreakpointsOf(dist_called[k]) :
            /\ b.locations # <<>>
            /\ \A i \in 1..Len(b.locations) :
                  /\ b.locations[i] \in 0..(Len(deck) - 1)
                  /\ dist_called[k][b.locations[i] + 1]
            /\ ~b.bp.raised
            /\ \A loc \in DOMAIN b.bp.locs_to_stacks :
                  Len(b.bp.locs_to_stacks[loc]) = nsuits

\* A path with two breakpoints or more was handed to the solver
C26_Witness ==
    \E k \in 1..Len(dist_called) :
        \E b \in BreakpointsOf(dist_called[k]) :
            /\ Len(b.locations) >= 2
            /\ ~b.bp.raised
            /\ \A loc \in DOMAIN b.bp.locs_to_stacks :
                  Len(b.bp.locs_to_stacks[loc]) = nsuits

\* The orders the properties enumerate the product in: a rotation of
\* the order of itertools.product, or of its reverse
Orders(n) == [rev : BOOLEAN, shift : 0..(n - 1)]

\* The elements of the product of the lists in one of these orders
InOrder(lists, order) ==
    [k \in 1..ProductSize(lists) |->
        ProductAt(lists,
                  ((IF order.rev THEN ProductSize(lists) - k ELSE k - 1)
                   + order.shift) % ProductSize(lists))]

\* The loop of check_for_1p_inf over a sequence of product elements
RECURSIVE elements_loop(_, _, _, _)
elements_loop(d, elements, k, st) ==
    IF k > Len(elements) \/ st.found_pace_one THEN st
    ELSE elements_loop(d, elements, k + 1,
                       LoopBody(d, st, PathOf(d, elements[k])))

\* check_for_infeasibility with the product enumerated as given
VerdictInOrder(d, elements) ==
    LET st == elements_loop(d, elements, 1, LoopStart)
        paths == IF st.found_pace_one THEN <<>> ELSE st.dist_paths
        dist == all_dist_loss(d, paths, 1)
    IN  IF Len(paths) = 0 THEN Pair(st.proved_infeasible, FALSE)
        ELSE IF dist.raised THEN RaisedPair
        ELSE Pair(dist.value, TRUE)

\* C27: the pair check_for_infeasibility returned is the pair it returns
\* with the paths enumerated in any rotation of the product order or of
\* its reverse
C27_OrderFree ==
    Returned1 =>
        \A order \in Orders(ProductSize(suit_paths)) :
            VerdictInOrder(TheDeck, InOrder(suit_paths, order)) = result

\* A pair was returned at the first path with pace to spare, after
\* pace-zero paths, for a deck that also has rejected paths
C27_Witness ==
    /\ Returned1
    /\ found_pace_one
    /\ dist_paths = <<>>
    /\ \E k \in 0..(ProductSize(suit_paths) - 1) :
          /\ ~CapLoss(PathAt(k))
          /\ ~TeamPaceLoss(PathAt(k))
          /\ SinglePaceLoss(PathAt(k))
    /\ \E k \in 0..(ProductSize(suit_paths) - 1) :
          CapLoss(PathAt(k)) \/ TeamPaceLoss(PathAt(k))

\* The number of cards of a rank among the cards of one suit
CopiesIn(cards, rank) ==
    Cardinality({k \in 1..Len(cards) : cards[k].rank = rank})

\* The cards of a suit of a No Variant deck: 3 copies of rank 1, 2 of ranks
\* 2 to 4 and 1 of rank 5
NoVariantSuit(cards) ==
    /\ Len(cards) = 10
    /\ CopiesIn(cards, 1) = 3
    /\ \A r \in 2..4 : CopiesIn(cards, r) = 2
    /\ CopiesIn(cards, 5) = 1

\* No tuple occurs twice in a sequence of SuitPaths
NoTupleRepeated(paths) ==
    \A i, j \in 1..Len(paths) : paths[i] = paths[j] => i = j

RECURSIVE Power(_, _)
Power(b, n) == IF n = 0 THEN 1 ELSE b * Power(b, n - 1)

\* C28: for a suit of a No Variant deck identify returns between one and
\* eight SuitPaths, no tuple twice; the product over the suits of such a
\* deck is then non-empty and has at most 8^S elements
C28_PathCount ==
    (pc = "shared" /\ id_cards # <<>> /\ NoVariantSuit(id_cards)) =>
        /\ ~id_result.raised
        /\ Len(id_result.paths) \in 1..8
        /\ NoTupleRepeated(id_result.paths)
        /\ (\A s \in 1..nsuits : NoVariantSuit(SuitCards(TheDeck, s - 1))) =>
               \A all \in {_suitify2(TheDeck, options)} :
                  /\ ~all.raised
                  /\ ProductSize(all.paths) \in 1..Power(8, nsuits)

\* identify has returned eight SuitPaths for a suit of a No Variant deck,
\* branching at each of the ranks 2, 3 and 4
C28_Witness ==
    /\ pc = "shared"
    /\ NoVariantSuit(id_cards)
    /\ ~id_result.raised
    /\ Len(id_result.paths) = 8
    /\ \A r \in 2..4 : \E i, j \in 1..Len(id_result.paths) :
           id_result.paths[i][r] # id_result.paths[j][r]
\* The deck positions of the first copy of every distinct card of the deck
RECURSIVE first_copies_loop(_, _, _, _)
first_copies_loop(d, i, cards, locations) ==
    IF i > DeckLen(d) THEN locations
    ELSE LET value == CardValue(d.deck[i].suit, d.deck[i].rank)
         IN  IF value \notin cards
             THEN first_copies_loop(d, i + 1, cards \cup {value},
                                    Append(locations, i - 1))
             ELSE first_copies_loop(d, i + 1, cards, locations)

FirstCopyPath(d) == _pathify(d, first_copies_loop(d, 1, {}, <<>>))

\* C29 as stated: check_for_pace_loss returns, for every deck, the verdict
\* of the team-budget pace filter on the path of the deck positions of the
\* first copy of every distinct card
C29_FirstCopies ==
    /\ pc # "pace_raised"
    /\ pc = "pace" =>
          /\ mask = FirstCopyPath(TheDeck)
          /\ mask_loss = _check_for_pace_loss(TheDeck, FirstCopyPath(TheDeck),
                                              NumPlayers)

\* Whenever the call returns at all, every card of the deck is of the first
\* suit and the path holds the ranks of the deck, not the positions
RanksAsPositions ==
    pc = "pace" =>
        /\ \A i \in 1..Len(deck) : deck[i].suit = 0
        /\ \A i \in 1..Len(mask) :
               mask[i] <=> \E k \in 1..Len(deck) : deck[k].rank = i - 1

\* The call returned no pace loss where the first copies lose the pace
VerdictDiffers ==
    /\ pc = "pace"
    /\ ~mask_loss
    /\ _check_for_pace_loss(TheDeck, FirstCopyPath(TheDeck), NumPlayers)

\* The deck positions out of the draw pile, place by place: the hands, the
\* discard pile, the play stacks
OutOfPile == Chain(hands) \o discard_pile \o Chain(play_stacks)

\* C30: in a replay whose plays, bombs and discards target cards of the
\* acting hand, the draw pile is the last draw_pile_size entries of the deck
\* and every other card is in one place exactly; draw_pile_size is never
\* negative and score is the number of cards on the play stacks
C30_Conservation ==
    pc = "replay" =>
        /\ draw_pile_size >= 0
        /\ Len(OutOfPile) = Len(deck) - draw_pile_size
        /\ {OutOfPile[k] : k \in 1..Len(OutOfPile)}
              = 0..(Len(deck) - draw_pile_size - 1)
        /\ score = Score

\* C30, the order of the draws: a step that draws puts the first card of
\* the pile, deck[-draw_pile_size], at the front of the acting hand
DrawsInDeckOrder ==
    [][(pc = "replay" /\ draw_pile_size' # draw_pile_size) =>
          /\ draw_pile_size' = draw_pile_size - 1
          /\ Head(hands'[current_player + 1]) = Len(deck) - draw_pile_size]_vars

\* The pile has been drawn empty and moves went on: a card was played, one
\* bombed or discarded, and a hand is a card short
C30_Witness ==
    /\ pc = "replay"
    /\ draw_pile_size = 0
    /\ score > 0
    /\ discard_pile # <<>>
    /\ \E p \in 1..NumPlayers : Len(hands[p]) < HandSize
    /\ \E k \in 1..Len(discard_pile) :
          interpret(TheDeck, discard_pile[k]).rank = 1

==============================================================================
